---- MODULE Spec2Model ----
(***************************************************************************)
(* WinDirScope 1.4.2 (src/WinDirScope_21.py): the recursive directory      *)
(* scanner, the entry counter used as progress denominator, and the scan   *)
(* orchestration (UI thread handlers, background worker, 200 ms poller).   *)
(*                                                                         *)
(* The filesystem is a tree of entries.  Every entry records what the      *)
(* operating system answers for it: whether it is a directory, its size,   *)
(* whether stat() fails, whether is_dir() raises, whether it is a link to  *)
(* a directory, and after how many yielded entries the listing of a        *)
(* directory fails (failAt = -1: the listing never fails).                 *)
(***************************************************************************)
EXTENDS Integers, Sequences, FiniteSets, TLC

VARIABLES
    fs,               \* the entry found on disk at the chosen path
    fsChanged,        \* the disk changed after the request was accepted
    root_node,        \* self.root_node
    ext_stats,        \* self.ext_stats (insertion-ordered dict: a sequence)
    scan_error,       \* self._scan_error ("unset": attribute not yet created)
    top_files,        \* self.top_files
    scan_thread,      \* self.scan_thread: 0 is None, else the thread's number
    workers,          \* the threads ever started: pc, local result, ticks done
    scan_running,     \* self.scan_running
    current_scan_path,\* self.current_scan_path
    progress_total,   \* self.progress_total
    progress_current, \* self.progress_current
    progress_var,     \* self.progress_var: percent shown by the progress bar
    lbl_status,       \* kind of text shown in the status label
    btn_export,       \* state of the export button
    views,            \* tree / extension / top views: "empty" or "populated"
    pollPending,      \* number of master.after(200, _poll_scan_thread) pending
    uiPc,             \* position of the UI thread inside _poll_scan_thread
    shown,            \* message boxes shown by the handler that ran last
    finalized,        \* per thread: number of finalization passes made for it
    lastRead,         \* the latest read of the result fields: who, worker alive?
    max_level_var,    \* self.max_level_var: the value of the depth spinbox
    tree,             \* the items of the tree view: the places of their nodes
    arg,              \* input of a pure function application
    ret               \* its result

vars == <<fs, fsChanged, root_node, ext_stats, scan_error, top_files, scan_thread,
          workers, scan_running, current_scan_path, progress_total,
          progress_current, progress_var, lbl_status, btn_export, views,
          pollPending, uiPc, shown, finalized, lastRead, max_level_var, tree,
          arg, ret>>

appVars == <<fs, fsChanged, root_node, ext_stats, scan_error, top_files, scan_thread,
             workers, scan_running, current_scan_path, progress_total,
             progress_current, progress_var, lbl_status, btn_export, views,
             pollPending, uiPc, shown, finalized, lastRead, max_level_var, tree>>

----------------------------------------------------------------------------
(* Bounds of the model *)

\* entries below the root in the trees given to the scanner alone
MaxEntries == 2
\* largest file size in bytes
MaxSize == 2
\* scans the user starts in one run of the application
MaxScans == 2
\* base-1024 digits of the byte counts given to human_size alone
MaxDigits == 6

----------------------------------------------------------------------------
(* Helpers *)

Min(a, b) == IF a <= b THEN a ELSE b

Range(s) == {s[i] : i \in DOMAIN s}

RECURSIVE SumSeq(_)
SumSeq(s) == IF s = <<>> THEN 0 ELSE Head(s) + SumSeq(Tail(s))

Digits == <<"0", "1", "2", "3", "4", "5", "6", "7", "8", "9">>

RECURSIVE IntToStr(_)
\* str(n), n >= 0: the decimal digits, one character each
IntToStr(n) ==
    IF n < 10 THEN <<Digits[n + 1]>>
    ELSE Append(IntToStr(n \div 10), Digits[(n % 10) + 1])

----------------------------------------------------------------------------
(* The filesystem *)

RootName == <<"r">>

FsFile(name, size, statFails) ==
    [kind |-> "file", name |-> name, size |-> size, statFails |-> statFails,
     link |-> FALSE, failAt |-> -1, entries |-> <<>>]

FsDir(name, link, failAt, entries) ==
    [kind |-> "dir", name |-> name, size |-> 0, statFails |-> FALSE,
     link |-> link, failAt |-> failAt, entries |-> entries]

\* an entry whose is_dir() raises (stat refused)
FsDenied(name) ==
    [kind |-> "denied", name |-> name, size |-> 0, statFails |-> TRUE,
     link |-> FALSE, failAt |-> -1, entries |-> <<>>]

\* a path with nothing behind it
FsMissing(name) ==
    [kind |-> "missing", name |-> name, size |-> 0, statFails |-> TRUE,
     link |-> FALSE, failAt |-> -1, entries |-> <<>>]

RECURSIVE FsLevels(_, _)
\* FsLevels(n, maxSize)[k + 1]: the directory contents with exactly k entries in
\* all (k <= n), names distinct in every directory: a first entry (a leaf, or
\* a directory with its own contents) followed by the rest
FsLevels(n, maxSize) ==
        \* the contents t followed by r, when no entry of r bears the name of t
    LET FsCons(ts, rs) ==
            {<<x[1]>> \o x[2] : x \in {y \in ts \X rs :
                                        \A i \in DOMAIN y[2] : y[2][i].name # y[1].name}}
    IN
        \* the directories holding one of the contents cs (each of at most n entries),
        \* with every way their listing may fail
    LET FsDirsOf(cs, n00) ==
            LET DirNames == {<<"d">>, <<"e">>}
            IN
            {FsDir(d, l, y[2], y[1]) : d \in DirNames, l \in BOOLEAN,
                                       y \in {z \in cs \X (-1..n00) : z[2] <= Len(z[1])}}
    IN
        \* files of every size up to maxSize, a file whose stat fails, a refused entry
    LET FsLeaves(maxSize0) ==
            LET FileNames == {<<"a">>, <<"b", ".", "T">>, <<"c", ".", "t">>}
            IN
            {FsFile(n0, s, FALSE) : n0 \in FileNames, s \in 1..maxSize0}
                \cup {FsFile(<<"a">>, 1, TRUE), FsDenied(<<"a">>)}
    IN
    IF n = 0 THEN << {<<>>} >>
    ELSE LET L == FsLevels(n - 1, maxSize)
         IN  Append(L,
                 FsCons(FsLeaves(maxSize), L[n])
                 \cup UNION {FsCons(FsDirsOf(L[k + 1], k), L[n - k])
                             : k \in 0..(n - 1)})

\* what may lie behind the path handed to the scanner
FsRoots(n, maxSize) ==
        \* the directory contents with at most n entries in all
    LET FsForests(n0, maxSize0) == UNION Range(FsLevels(n0, maxSize0))
    IN
    {FsDir(RootName, FALSE, y[2], y[1])
        : y \in {z \in FsForests(n, maxSize) \X (-1..n) : z[2] <= Len(z[1])}}
        \cup {FsFile(RootName, 1, FALSE), FsFile(RootName, 1, TRUE),
              FsMissing(RootName), FsDenied(RootName)}

\* files in each directory of a wide tree
WidePerDir == 10

\* trees with about as many files as the list of largest files holds:
\* cut - over .. cut + over files
WideRoots(cut, over) ==
        \* the size of the i-th of n files in a wide directory: all equal, all
        \* distinct and growing, or equal two by two
    LET WideSize(pattern, i) ==
            IF pattern = "equal" THEN 1
            ELSE IF pattern = "distinct" THEN i
            ELSE (i + 1) \div 2
    IN
        \* n files f1, f2, ... in directories d1, d2, ... of WidePerDir files each
    LET WideDir(pattern, n) ==
            FsDir(RootName, FALSE, -1,
                  [k \in 1..((n + WidePerDir - 1) \div WidePerDir) |->
                      FsDir(<<"d">> \o IntToStr(k), FALSE, -1,
                            [j \in 1..Min(WidePerDir, n - (k - 1) * WidePerDir) |->
                                FsFile(<<"f">> \o IntToStr((k - 1) * WidePerDir + j),
                                       WideSize(pattern, (k - 1) * WidePerDir + j), FALSE)])])
    IN
    {WideDir(x[1], x[2]) : x \in {"equal", "distinct", "pairs"}
                                    \X ((cut - over)..(cut + over))}

----------------------------------------------------------------------------
(* Node, and the values standing for Python's None *)

None == [none |-> TRUE]

Node(path, name, is_dir, size, children, level, access_denied) ==
    [path |-> path, name |-> name, is_dir |-> is_dir, size |-> size,
     children |-> children, level |-> level, access_denied |-> access_denied]

----------------------------------------------------------------------------
(* Path.suffix.lower() and the extension table *)

Lower(name) ==
        \* str.lower() on the letters that occur in the names
    LET LowerChar(c) ==
            CASE c = "T" -> "t" [] c = "A" -> "a" [] c = "J" -> "j" [] c = "S" -> "s"
              [] c = "O" -> "o" [] c = "N" -> "n" [] OTHER -> c
    IN
               [i \in DOMAIN name |-> LowerChar(name[i])]

\* pathlib's suffix: from the last dot on, unless that dot is the first or the
\* last character of the name
Suffix(name) ==
        \* str.rfind("."), counted from 1; 0 when there is none
    LET RFindDot(name0) ==
            LET dots == {i \in DOMAIN name0 : name0[i] = "."}
            IN  IF dots = {} THEN 0 ELSE CHOOSE i \in dots : \A j \in dots : j <= i
    IN
    LET i == RFindDot(name)
    IN  IF 1 < i /\ i < Len(name) THEN SubSeq(name, i, Len(name)) ELSE <<>>

ExtKey(name) ==
    LET SansExtension == <<"<sans extension>">>
    IN
    LET ext == Lower(Suffix(name))
    IN  IF ext = <<>> THEN SansExtension ELSE ext

\* ext_stats[ext] = ext_stats.get(ext, 0) + size: a known key keeps its place,
\* a new key goes last
ExtAdd(stats, ext, size) ==
        \* ext_stats.get(ext, 0)
    LET ExtGet(stats0, ext0) ==
            IF \E i \in DOMAIN stats0 : stats0[i].ext = ext0
            THEN (CHOOSE r \in Range(stats0) : r.ext = ext0).size
            ELSE 0
    IN
    IF \E i \in DOMAIN stats : stats[i].ext = ext
    THEN [i \in DOMAIN stats |->
             IF stats[i].ext = ext
             THEN [stats[i] EXCEPT !.size = ExtGet(stats, ext) + size]
             ELSE stats[i]]
    ELSE Append(stats, [ext |-> ext, size |-> size])

----------------------------------------------------------------------------
(* scan_directory *)

\* path.stat().st_size, 0 when stat fails
StatSize(e) == IF e.kind = "missing" \/ e.statFails THEN 0 ELSE e.size

\* ScanFile with the table fed from the listed size, not from the stat result
ScanFileRawSize(e, path, level, stats) ==
    [raised |-> FALSE,
     node |-> Node(path, e.name, FALSE, StatSize(e), <<>>, level, FALSE),
     ext |-> ExtAdd(stats, ExtKey(e.name), e.size),
     ticks |-> 0]

\* ScanFile leaving the table alone when stat failed
ScanFileUnrecorded(e, path, level, stats) ==
    [raised |-> FALSE,
     node |-> Node(path, e.name, FALSE, StatSize(e), <<>>, level, FALSE),
     ext |-> IF e.statFails THEN stats ELSE ExtAdd(stats, ExtKey(e.name), e.size),
     ticks |-> 0]

\* line 97-102: the file node and its share of the extension table
ScanFile(e, path, level, stats) ==
    LET size == StatSize(e)
    IN  [raised |-> FALSE,
         node |-> Node(path, e.name, FALSE, size, <<>>, level, FALSE),
         ext |-> ExtAdd(stats, ExtKey(e.name), size),
         ticks |-> 0]

\* ListingFailed with the size put back to 0 and the children kept
ListingFailedZeroSize(node) == [node EXCEPT !.access_denied = TRUE, !.size = 0]

\* line 86-88: the listing failed, whatever was linked before stays
ListingFailed(node) == [node EXCEPT !.access_denied = TRUE]

\* CaughtByLoop without the except clause of line 83
CaughtByLoopNever(r) == FALSE

\* line 83: the scan of the child raised PermissionError, FileNotFoundError
\* or another OSError (what is_dir() raises), which the loop catches
CaughtByLoop(r) == r.raised

RECURSIVE _scan(_, _, _, _), ScanEntries(_, _, _, _, _)
\* the loop of lines 73-85 from the i-th entry on; ticks counts the calls of
\* progress_callback
ScanEntries(e, i, node, stats, ticks) ==
        \* line 81-82: the child is linked and its size added
    LET LinkChild(node0, child) ==
            [node0 EXCEPT !.children = Append(@, child), !.size = @ + child.size]
    IN
    IF e.failAt # -1 /\ i > e.failAt
    THEN [raised |-> FALSE, node |-> ListingFailed(node), ext |-> stats, ticks |-> ticks]
    ELSE IF i > Len(e.entries)
    THEN [raised |-> FALSE, node |-> node, ext |-> stats, ticks |-> ticks]
    ELSE LET c == e.entries[i]
             r == _scan(c, Append(node.path, c.name), node.level + 1, stats)
         IN  IF r.raised /\ ~CaughtByLoop(r)
             THEN [raised |-> TRUE, node |-> None, ext |-> r.ext,
                   ticks |-> ticks + 1 + r.ticks]
             ELSE IF r.raised
             THEN \* line 85: continue
                  ScanEntries(e, i + 1, node, r.ext, ticks + 1 + r.ticks)
             ELSE ScanEntries(e, i + 1, LinkChild(node, r.node), r.ext,
                              ticks + 1 + r.ticks)

\* _scan with an is_dir() that answers False where it should raise
_scanDeniedAsFile(e, path, level, stats) ==
    IF e.kind = "dir"
    THEN ScanEntries(e, 1, Node(path, e.name, TRUE, 0, <<>>, level, FALSE), stats, 0)
    ELSE ScanFile(e, path, level, stats)

\* _scan(path, level): is_dir() raising escapes to the caller
_scan(e, path, level, stats) ==
    IF e.kind = "denied"
    THEN [raised |-> TRUE, node |-> None, ext |-> stats, ticks |-> 0]
    ELSE IF e.kind = "dir"
    THEN ScanEntries(e, 1, Node(path, e.name, TRUE, 0, <<>>, level, FALSE), stats, 0)
    ELSE ScanFile(e, path, level, stats)

scan_directory(root) == _scan(root, <<root.name>>, 0, <<>>)

----------------------------------------------------------------------------
(* human_size *)

\* A byte count is an unbounded Python int: it is held as its base-1024
\* digits, lowest first.  Dividing by 1024 moves the lowest digit behind the
\* point (frac, highest first); the float result is exact below 2^53.

Kilo == 1024

Units == << <<"o">>, <<"K", "o">>, <<"M", "o">>, <<"G", "o">>, <<"T", "o">> >>

RECURSIVE Bytes(_)
\* the digits of a count small enough to be written down
Bytes(n) == IF n < Kilo THEN <<n>> ELSE <<n % Kilo>> \o Bytes(n \div Kilo)

RECURSIVE WholeValue(_)
\* the number below 2^31 that the digits stand for
WholeValue(digits) ==
    IF digits = <<>> THEN 0 ELSE Head(digits) + Kilo * WholeValue(Tail(digits))

\* Below1024 with the test num_bytes <= 1024
Below1024Inclusive(num) ==
    \/ \A i \in DOMAIN num.whole : i > 1 => num.whole[i] = 0
    \/ /\ num.whole[1] = 0
       /\ \A i \in DOMAIN num.frac : num.frac[i] = 0
       /\ Len(num.whole) > 1
       /\ num.whole[2] = 1
       /\ \A i \in DOMAIN num.whole : i > 2 => num.whole[i] = 0

\* line 37: num_bytes < 1024
Below1024(num) == \A i \in DOMAIN num.whole : i > 1 => num.whole[i] = 0

RECURSIVE Times10(_)
\* 10 * 0.f1 f2 ...: what goes before the point (carry) and the digits behind
Times10(frac) ==
    IF frac = <<>> THEN [carry |-> 0, frac |-> <<>>]
    ELSE LET rest == Times10(Tail(frac))
             t == 10 * Head(frac) + rest.carry
         IN  [carry |-> t \div Kilo, frac |-> <<t % Kilo>> \o rest.frac]

RECURSIVE HumanLoop(_, _)
\* line 36-39: the loop over the units, from the i-th on
HumanLoop(num, i) ==
        \* line 38: f"{num_bytes:.1f} {unit}"
    LET Format1f(num00, unit) ==
                \* the number of tenths (0..10) the format ".1f" rounds the part behind the
                \* point to: to the nearest, and to the even one when both are as near
            LET Tenths(frac) ==
                    LET p == Times10(frac)
                        more == \E i0 \in DOMAIN p.frac : i0 > 1 /\ p.frac[i0] # 0
                        up == /\ p.frac # <<>>
                              /\ \/ p.frac[1] > Kilo \div 2
                                 \/ p.frac[1] = Kilo \div 2 /\ (more \/ p.carry % 2 = 1)
                    IN  p.carry + (IF up THEN 1 ELSE 0)
            IN
            LET t == Tenths(num00.frac)
                whole == WholeValue(num00.whole) + (IF t = 10 THEN 1 ELSE 0)
            IN  IntToStr(whole) \o <<".", Digits[(t % 10) + 1], " ">> \o unit
    IN
        \* line 39: num_bytes /= 1024
    LET Div1024(num0) ==
            [whole |-> IF Len(num0.whole) > 1 THEN Tail(num0.whole) ELSE <<0>>,
             frac |-> <<Head(num0.whole)>> \o num0.frac]
    IN
    IF Below1024(num) \/ Units[i] = <<"T", "o">>
    THEN Format1f(num, Units[i])
    ELSE HumanLoop(Div1024(num), i + 1)

human_size(num_bytes) == HumanLoop([whole |-> num_bytes, frac |-> <<>>], 1)

----------------------------------------------------------------------------
(* count_entries *)

RECURSIVE Walk(_)
\* os.walk(top, onerror=...), links to directories not followed: the sum of
\* len(dirs) + len(files) over the directories it yields
Walk(e) ==
    IF e.kind # "dir" \/ e.failAt # -1 THEN 0
    ELSE Len(e.entries)
         + SumSeq([i \in DOMAIN e.entries |->
                      IF e.entries[i].kind = "dir" /\ ~e.entries[i].link
                      THEN Walk(e.entries[i]) ELSE 0])

count_entries(root) ==
    LET Max(a, b) == IF a >= b THEN a ELSE b
    IN
                       Max(Walk(root), 1)

----------------------------------------------------------------------------
(* _compute_top_files *)

\* files[:100]
TopK == 100

RECURSIVE Visit(_), VisitAll(_)
\* visit(node): the file rows in the order the traversal meets them
Visit(node) ==
    LET TopRow(node0) ==
            [path |-> node0.path, name |-> node0.name, size_bytes |-> node0.size,
             level |-> node0.level]
    IN
               IF node.is_dir THEN VisitAll(node.children) ELSE <<TopRow(node)>>

VisitAll(children) ==
    IF children = <<>> THEN <<>>
    ELSE Visit(Head(children)) \o VisitAll(Tail(children))

\* SortRank with the later of two rows of one size put first
SortRankLaterFirst(rows, i) ==
    Cardinality({j \in DOMAIN rows :
                    \/ rows[j].size_bytes > rows[i].size_bytes
                    \/ rows[j].size_bytes = rows[i].size_bytes /\ j > i}) + 1

\* the place the i-th row takes in a stable sort, largest size_bytes first:
\* behind the larger rows and behind the rows of its size that stood before it
SortRank(rows, i) ==
    Cardinality({j \in DOMAIN rows :
                    \/ rows[j].size_bytes > rows[i].size_bytes
                    \/ rows[j].size_bytes = rows[i].size_bytes /\ j < i}) + 1

\* files.sort(key=size_bytes, reverse=True)
SortDesc(rows) ==
    LET rank == [i \in DOMAIN rows |-> SortRank(rows, i)]
    IN  [k \in DOMAIN rows |-> rows[CHOOSE i \in DOMAIN rows : rank[i] = k]]

\* _compute_top_files without the cut of line 565
_compute_top_filesUncut(node) ==
    IF node = None THEN <<>> ELSE SortDesc(Visit(node))

_compute_top_files(node) ==
    IF node = None THEN <<>>
    ELSE LET files == SortDesc(Visit(node))
         IN  SubSeq(files, 1, Min(Len(files), TopK))

----------------------------------------------------------------------------
(* _populate_tree_view *)

\* add_node with the test of line 480 turned into >=
TooDeepInclusive(node, max_level) == node.level >= max_level

\* line 480: the node lies below the depth to show
TooDeep(node, max_level) == node.level > max_level

RECURSIVE add_node(_, _, _)
\* line 479-504: the items inserted for a node and the nodes below it; an
\* item is known by the place of its node, the child numbers from the root
\* (the order of the items among their siblings is left out)
add_node(node, loc, max_level) ==
    IF TooDeep(node, max_level) THEN {}
    ELSE {loc} \cup UNION {add_node(node.children[i], Append(loc, i), max_level)
                             : i \in DOMAIN node.children}

----------------------------------------------------------------------------
(* _flatten_tree *)

RECURSIVE JoinWith(_, _)
\* sep.join(parts)
JoinWith(parts, sep) ==
    IF parts = <<>> THEN <<>>
    ELSE IF Len(parts) = 1 THEN parts[1]
    ELSE parts[1] \o sep \o JoinWith(Tail(parts), sep)

\* str(node.path)
PathStr(path) ==
        \* os.sep
    LET Sep == "/"
    IN
                 JoinWith(path, <<Sep>>)

RECURSIVE FlatVisit(_, _), FlatVisitAll(_, _)
\* visit(node): the row of the node, then the rows below each child in turn
FlatVisit(node, total_size) ==
        \* line 886-895: the row of one node
    LET FlatRow(node0, total_size00) ==
                \* (node.size / total_size) * 100, kept as the fraction it is the value of
            LET PercentOf(size, total_size0) == [num |-> size * 100, den |-> total_size0]
            IN
            [path |-> PathStr(node0.path),
             name |-> node0.name,
             level |-> node0.level,
             type |-> IF node0.is_dir THEN <<"dossier">> ELSE <<"fichier">>,
             size_bytes |-> node0.size,
             size_human |-> human_size(Bytes(node0.size)),
             percent_total |-> PercentOf(node0.size, total_size00),
             access_denied |-> node0.access_denied]
    IN
    <<FlatRow(node, total_size)>> \o FlatVisitAll(node.children, total_size)

\* FlatVisitAll going through the children from the last one to the first
FlatVisitAllReversed(children, total_size) ==
    IF children = <<>> THEN <<>>
    ELSE FlatVisitAll(Tail(children), total_size)
             \o FlatVisit(Head(children), total_size)

FlatVisitAll(children, total_size) ==
    IF children = <<>> THEN <<>>
    ELSE FlatVisit(Head(children), total_size)
             \o FlatVisitAll(Tail(children), total_size)

\* total_size = self.root_node.size or 1
_flatten_tree(root) == FlatVisit(root, IF root.size = 0 THEN 1 ELSE root.size)

----------------------------------------------------------------------------
(* The tree exports: delimited text and structured data *)

RECURSIVE Power10(_)
Power10(d) == IF d = 0 THEN 1 ELSE 10 * Power10(d - 1)

RECURSIVE ZeroPad(_, _)
\* the digits of n, with zeros in front up to the width
ZeroPad(digits, width) ==
    IF Len(digits) >= width THEN digits ELSE ZeroPad(<<"0">> \o digits, width)

\* the delimiter given to csv.writer
Delimiter == ";"

Quote == "\""

RECURSIVE Doubled(_)
\* every quote character written twice
Doubled(field) ==
    IF field = <<>> THEN <<>>
    ELSE (IF Head(field) = Quote THEN <<Quote, Quote>> ELSE <<Head(field)>>)
             \o Doubled(Tail(field))

\* CsvField without the quoting
CsvFieldRaw(field) == field

\* csv.writer, minimal quoting: a field holding the delimiter, a quote or a
\* line end is put between quotes
CsvField(field) ==
    IF \E i \in DOMAIN field : field[i] \in {Delimiter, Quote, "\r", "\n"}
    THEN <<Quote>> \o Doubled(field) \o <<Quote>>
    ELSE field

\* writer.writerow(fields)
CsvLine(fields) ==
    JoinWith([i \in DOMAIN fields |-> CsvField(fields[i])], <<Delimiter>>)
        \o <<"\r", "\n">>

RECURSIVE CsvLines(_)
CsvLines(rows) ==
        \* line 1149-1160
    LET TreeCsvFields(row) ==
                \* f"{percent:.4f}" (d = 4): nearest multiple of 10^-d, the even one when two
                \* are as near
            LET FormatFixed(percent, d) ==
                    LET scaled == percent.num * Power10(d)
                        q == scaled \div percent.den
                        r == scaled % percent.den
                        up == 2 * r > percent.den \/ (2 * r = percent.den /\ q % 2 = 1)
                        n == q + (IF up THEN 1 ELSE 0)
                    IN  IntToStr(n \div Power10(d)) \o <<".">> \o ZeroPad(IntToStr(n % Power10(d)), d)
            IN
            <<row.path, row.name, IntToStr(row.level), row.type, IntToStr(row.size_bytes),
              row.size_human, FormatFixed(row.percent_total, 4),
              IF row.access_denied THEN <<"Oui">> ELSE <<"Non">> >>
    IN
    IF rows = <<>> THEN <<>>
    ELSE CsvLine(TreeCsvFields(Head(rows))) \o CsvLines(Tail(rows))

\* the file: encoding utf-8-sig puts the byte order mark in front
_export_tree_csv(root) ==
        \* line 1136-1147 (accents left out)
    LET TreeCsvHeader ==
            << <<"Chemin complet">>, <<"Nom">>, <<"Niveau">>, <<"Type">>,
               <<"Taille (octets)">>, <<"Taille lisible">>, <<"% du total">>,
               <<"Acces refuse">> >>
    IN
    [bom |-> TRUE, text |-> CsvLine(TreeCsvHeader) \o CsvLines(_flatten_tree(root))]

RECURSIVE JsonEscape(_)
\* json.dump, ensure_ascii=False: quote, backslash and line ends are escaped
JsonEscape(str) ==
    IF str = <<>> THEN <<>>
    ELSE LET c == Head(str)
         IN  (IF c = Quote THEN <<"\\", Quote>>
              ELSE IF c = "\\" THEN <<"\\", "\\">>
              ELSE IF c = "\n" THEN <<"\\", "n">>
              ELSE IF c = "\r" THEN <<"\\", "r">>
              ELSE <<c>>) \o JsonEscape(Tail(str))

\* json.dump(rows, f, ensure_ascii=False, indent=2), encoding utf-8
_export_tree_json(root) ==
        \* one object of the array: every value as json.dump writes it (the float is
        \* left as the fraction it is the value of)
    LET TreeJsonObject(row) ==
            LET JsonString(str) == <<Quote>> \o JsonEscape(str) \o <<Quote>>
            IN
            [path |-> JsonString(row.path),
             name |-> JsonString(row.name),
             level |-> IntToStr(row.level),
             type |-> JsonString(row.type),
             size_bytes |-> IntToStr(row.size_bytes),
             size_human |-> JsonString(row.size_human),
             percent_total |-> row.percent_total,
             access_denied |-> IF row.access_denied THEN <<"true">> ELSE <<"false">>]
    IN
    LET rows == _flatten_tree(root)
    IN  [bom |-> FALSE, array |-> [i \in DOMAIN rows |-> TreeJsonObject(rows[i])]]

\* line 1229-1241: one line per row, "  " * int(row["level"]) in front; the
\* parts the f-string puts behind the indentation are kept apart (the float
\* is left as the fraction it is the value of)
_export_tree_txt(root) ==
    LET rows == _flatten_tree(root)
    IN  [i \in DOMAIN rows |->
            [indent |-> [k \in 1..(2 * rows[i].level) |-> " "],
             name |-> rows[i].name,
             type |-> rows[i].type,
             size_human |-> rows[i].size_human,
             percent_total |-> rows[i].percent_total,
             access_denied |-> IF rows[i].access_denied THEN <<"Oui">> ELSE <<"Non">>,
             path |-> rows[i].path]]

----------------------------------------------------------------------------
(* on_export_results: the files of one export *)

\* line 1085-1117: the files to write for the chosen name, in order
ExportPlan(base_path) ==
        \* base_path.with_name(base_path.stem + "_arborescence" + ext) and its two
        \* siblings, each with the exporter that writes it
    LET Siblings(base_path0, ext, format) ==
                \* Path.stem
            LET Stem(name) == SubSeq(name, 1, Len(name) - Len(Suffix(name)))
            IN
            << [name |-> Stem(base_path0) \o <<"_arborescence">> \o ext,
                writer |-> <<"_export_tree_", format>>],
               [name |-> Stem(base_path0) \o <<"_extensions">> \o ext,
                writer |-> <<"_export_ext_", format>>],
               [name |-> Stem(base_path0) \o <<"_top100">> \o ext,
                writer |-> <<"_export_top_", format>>] >>
    IN
    LET suffix == Lower(Suffix(base_path))
    IN  IF suffix = <<".", "j", "s", "o", "n">>
        THEN Siblings(base_path, <<".", "j", "s", "o", "n">>, "json")
        ELSE IF suffix = <<".", "t", "x", "t">>
        THEN Siblings(base_path, <<".", "t", "x", "t">>, "txt")
        ELSE IF suffix \in {<<".", "h", "t", "m", "l">>, <<".", "h", "t", "m">>}
        THEN <<[name |-> base_path, writer |-> <<"_export_html">>]>>
        ELSE Siblings(base_path, <<".", "c", "s", "v">>, "csv")

\* ExportRaises with the exception swallowed
ExportRaisesNever(outcome) == FALSE

\* the exporter raises: control leaves the try block for line 1118
ExportRaises(outcome) == outcome # "ok"

RECURSIVE RunExporters(_, _, _)
\* line 1089-1117: the exporters run in turn until one raises
RunExporters(plan, outcomes, i) ==
        \* the file an exporter leaves on disk, if any
    LET ExportedFile(item, outcome) ==
            IF outcome = "open fails" THEN <<>>
            ELSE <<[name |-> item.name, writer |-> item.writer, complete |-> outcome = "ok"]>>
    IN
    IF i > Len(plan) THEN [disk |-> <<>>, raised |-> FALSE]
    ELSE IF ExportRaises(outcomes[i])
    THEN [disk |-> ExportedFile(plan[i], outcomes[i]), raised |-> TRUE]
    ELSE LET rest == RunExporters(plan, outcomes, i + 1)
         IN  [disk |-> ExportedFile(plan[i], outcomes[i]) \o rest.disk,
              raised |-> rest.raised]

\* line 1084-1128: what the handler leaves on disk, the dialogs it shows and
\* the file it opens
ExportRun(base_path, outcomes) ==
    LET plan == ExportPlan(base_path)
        run == RunExporters(plan, outcomes, 1)
    IN  IF run.raised
        THEN [disk |-> run.disk, shown |-> <<"error: erreur d'export">>,
              opened |-> <<>>]
        ELSE [disk |-> run.disk, shown |-> <<"info: export termine">>,
              opened |-> <<plan[1].name>>]

----------------------------------------------------------------------------
(* Reading the exports back *)

\* the k-th smallest member of a set of positions
NthOf(S, k) == CHOOSE e \in S : Cardinality({x \in S : x <= e}) = k

\* csv.reader(f, delimiter=";") on the text: the records end at the line ends
\* outside quotes, the fields at the delimiters outside quotes
CsvParse(text) ==
        \* a quoted field without its quotes, doubled quotes read as one
    LET CsvUnquote(field) ==
                \* the elements of s at the positions K, in order
            LET SubSeqAt(s, K) == [r \in 1..Cardinality(K) |-> s[NthOf(K, r)]]
            IN
            IF field # <<>> /\ field[1] = Quote
            THEN LET c == SubSeq(field, 2, Len(field) - 1)
                     second == {k \in DOMAIN c :
                                   /\ c[k] = Quote
                                   /\ Cardinality({q \in 1..(k - 1) : c[q] = Quote}) % 2 = 1}
                 IN  SubSeqAt(c, DOMAIN c \ second)
            ELSE field
    IN
        \* text cut at the positions cuts, the cut characters left out
    LET SplitAt(text00, cuts) ==
            [k \in 1..(Cardinality(cuts) + 1) |->
                SubSeq(text00,
                       IF k = 1 THEN 1 ELSE NthOf(cuts, k - 1) + 1,
                       IF k = Cardinality(cuts) + 1 THEN Len(text00) ELSE NthOf(cuts, k) - 1)]
    IN
        \* the positions of c in text that lie outside quotes: an even number of
        \* quote characters stands before them
    LET Unquoted(text0, c) ==
            LET quotes == {i \in DOMAIN text0 : text0[i] = Quote}
            IN  {i \in DOMAIN text0 :
                    text0[i] = c /\ Cardinality({q \in quotes : q < i}) % 2 = 0}
    IN
    LET ends == Unquoted(text, "\n")
        lines == SplitAt(text, ends)
        record(line) ==
            LET raw == IF line # <<>> /\ line[Len(line)] = "\r"
                       THEN SubSeq(line, 1, Len(line) - 1) ELSE line
                fields == SplitAt(raw, Unquoted(raw, Delimiter))
            IN  [i \in DOMAIN fields |-> CsvUnquote(fields[i])]
    IN  [k \in 1..Cardinality(ends) |-> record(lines[k])]

RECURSIVE JsonUnescape(_)
JsonUnescape(str) ==
    IF str = <<>> THEN <<>>
    ELSE IF Head(str) = "\\"
    THEN LET c == str[2]
         IN  <<IF c = "n" THEN "\n" ELSE IF c = "r" THEN "\r" ELSE c>>
                 \o JsonUnescape(SubSeq(str, 3, Len(str)))
    ELSE <<Head(str)>> \o JsonUnescape(Tail(str))

RECURSIVE DigitsValue(_)
DigitsValue(text) ==
        \* the value of the decimal digit c
    LET DigitValue(c) == (CHOOSE i \in DOMAIN Digits : Digits[i] = c) - 1
    IN
    IF text = <<>> THEN 0
    ELSE 10 * DigitsValue(SubSeq(text, 1, Len(text) - 1)) + DigitValue(text[Len(text)])

\* int(text); -1 stands for the ValueError raised on anything but digits
StrToInt(text) ==
    IF text # <<>> /\ \A i \in DOMAIN text : text[i] \in Range(Digits)
    THEN DigitsValue(text)
    ELSE -1

----------------------------------------------------------------------------
(* _export_html: the tree of the report and the filter script it embeds *)

\* one character as esc writes it
EscChar(c) ==
    CASE c = "&" -> <<"&", "a", "m", "p", ";">>
      [] c = "<" -> <<"&", "l", "t", ";">>
      [] c = ">" -> <<"&", "g", "t", ";">>
      [] c = Quote -> <<"&", "q", "u", "o", "t", ";">>
      [] OTHER -> <<c>>

RECURSIVE esc(_)
\* esc: the four replacements, & first
esc(str) == IF str = <<>> THEN <<>> ELSE EscChar(Head(str)) \o esc(Tail(str))

\* children sorted by size, largest first, equal sizes in their stored order
SortedBySize(children) ==
    LET rank == [i \in DOMAIN children |->
                    Cardinality({j \in DOMAIN children :
                        \/ children[j].size > children[i].size
                        \/ children[j].size = children[i].size /\ j < i}) + 1]
    IN  [k \in DOMAIN children |->
            children[CHOOSE i \in DOMAIN children : rank[i] = k]]

RECURSIVE node_to_html(_)
\* node_to_html: a directory is a <details> holding its <summary class="node">
\* and one <li> per child, a file is a <div class="node">.  Attribute values
\* and texts are kept as written, escaped.
node_to_html(node) ==
    LET el == [class |-> <<IF node.is_dir THEN "dir" ELSE "file", "node">>
                         \o (IF node.access_denied THEN <<"denied">> ELSE <<>>),
               data_name |-> esc(Lower(node.name)),
               data_level |-> IntToStr(node.level),
               data_type |-> IF node.is_dir THEN "dir" ELSE "file",
               name |-> esc(node.name),
               path |-> esc(PathStr(node.path))]
    IN  IF node.is_dir
        THEN LET sorted == SortedBySize(node.children)
             IN  [tag |-> "details", open |-> node.level <= 1, node |-> el,
                  items |-> [i \in DOMAIN sorted |-> node_to_html(sorted[i])]]
        ELSE [tag |-> "div", open |-> FALSE, node |-> el, items |-> <<>>]

IsPrefix(p, str) == Len(p) <= Len(str) /\ SubSeq(str, 1, Len(p)) = p

RECURSIVE Decoded(_)
\* the value the browser gives for an attribute or a text written by esc
Decoded(str) ==
        \* the character references the browser decodes in what esc wrote
    LET CharRefs ==
            { [ref |-> EscChar(c), char |-> c] : c \in {"&", "<", ">", Quote} }
    IN
    IF str = <<>> THEN <<>>
    ELSE LET refs == {r \in CharRefs : IsPrefix(r.ref, str)}
         IN  IF refs = {} THEN <<Head(str)>> \o Decoded(Tail(str))
             ELSE LET r == CHOOSE x \in refs : TRUE
                  IN  <<r.char>> \o Decoded(SubSeq(str, Len(r.ref) + 1, Len(str)))

RECURSIVE Locs(_)
\* the places of the .node elements of the tree: the child numbers leading to
\* each, from the root element
Locs(doc) ==
    {<<>>} \cup UNION {{<<i>> \o l : l \in Locs(doc.items[i])} : i \in DOMAIN doc.items}

RECURSIVE ElementAt(_, _)
ElementAt(doc, loc) ==
    IF loc = <<>> THEN doc ELSE ElementAt(doc.items[Head(loc)], Tail(loc))

RECURSIVE TrimStart(_)
TrimStart(str) ==
        \* String.prototype.trim
    LET IsSpace(c) == c \in {" ", "\t", "\n", "\r", "\f"}
    IN
    IF str # <<>> /\ IsSpace(Head(str)) THEN TrimStart(Tail(str)) ELSE str

Trim(str) ==
    LET Reverse(str0) == [i \in DOMAIN str0 |-> str0[Len(str0) + 1 - i]]
    IN
             Reverse(TrimStart(Reverse(TrimStart(str))))

\* String.prototype.indexOf(sub) !== -1
Contains(str, sub) ==
    \E i \in 1..(Len(str) - Len(sub) + 1) : SubSeq(str, i, i + Len(sub) - 1) = sub

\* parseInt(text, 10): leading blanks skipped, a sign, then the longest run
\* of digits; NaN when there is none
parseInt(text) ==
    LET NaN == [nan |-> TRUE, value |-> 0]
    IN
    LET t == TrimStart(text)
        signed == t # <<>> /\ Head(t) \in {"-", "+"}
        body == IF signed THEN Tail(t) ELSE t
        run == {n \in 0..Len(body) : \A i \in 1..n : body[i] \in Range(Digits)}
        n == CHOOSE x \in run : \A y \in run : y <= x
        value == DigitsValue(SubSeq(body, 1, n))
    IN  IF n = 0 THEN NaN
        ELSE [nan |-> FALSE,
              value |-> IF signed /\ Head(t) = "-" THEN 0 - value ELSE value]

\* Visible without the look into the <details>
VisibleOwnMatch(doc, match, loc) == match[loc] = "1"

\* applyFilters, second pass: the element matches, or it is a directory whose
\* <details> holds an element that matches
Visible(doc, match, loc) ==
    \/ match[loc] = "1"
    \/ /\ ElementAt(doc, loc).node.data_type = "dir"
       /\ \E l \in Locs(doc) : IsPrefix(loc, l) /\ match[l] = "1"

\* applyFilters; hidden is the set of elements whose style.display is 'none'
applyFilters(page) ==
        \* el.closest('li'), else the <details> of a directory, else the element
    LET Container(doc, loc) ==
            IF loc # <<>> THEN <<"li", loc>>
            ELSE IF ElementAt(doc, loc).node.data_type = "dir" THEN <<"details", loc>>
            ELSE <<"node", loc>>
    IN
        \* applyFilters, first pass: does the element match both filters
    LET NodeMatch(el, nameFilter, levelFilter) ==
            LET name == Lower(Decoded(el.data_name))
                level == parseInt(IF el.data_level = <<>> THEN <<"0">> ELSE el.data_level)
            IN  /\ ~(nameFilter # <<>> /\ ~Contains(name, nameFilter))
                /\ ~(~levelFilter.nan /\ level.value > levelFilter.value)
    IN
    LET nameFilter == Trim(Lower(page.name_value))
        levelFilter == parseInt(page.level_value)
        nodes == Locs(page.doc)
        match == [l \in nodes |->
                    IF NodeMatch(ElementAt(page.doc, l).node, nameFilter, levelFilter)
                    THEN "1" ELSE "0"]
        hide == {Container(page.doc, l) : l \in {x \in nodes : ~Visible(page.doc, match, x)}}
        show == {Container(page.doc, l) : l \in {x \in nodes : Visible(page.doc, match, x)}}
    IN  [page EXCEPT !.match = match, !.hidden = (@ \ show) \cup hide]

\* resetFilters
resetFilters(page) ==
        \* the elements resetFilters shows again: details and .node in version 1.3.x
        \* (WinDirScope_16), details, li and .node in WinDirScope_21
    LET ResetSelector(version) ==
            IF version = 16 THEN {"details", "node"} ELSE {"details", "li", "node"}
    IN
    [page EXCEPT !.name_value = <<>>, !.level_value = <<>>,
                 !.hidden = {h \in @ : h[1] \notin ResetSelector(page.version)},
                 !.match = [l \in Locs(page.doc) |-> "1"]]

\* a node is displayed when neither its own elements nor those of an ancestor
\* are hidden (a closed <details> is not counted as hiding)
Displayed(page, loc) ==
    \A h \in page.hidden : ~IsPrefix(h[2], loc)

----------------------------------------------------------------------------
(* The folders the user may pick in the application *)

AppFolders ==
    LET FileC == FsFile(<<"c", ".", "t">>, 1, FALSE)
    IN
    LET FileB == FsFile(<<"b", ".", "T">>, 2, FALSE)
    IN
    LET FileA == FsFile(<<"a">>, 1, FALSE)
    IN
    { FsDir(RootName, FALSE, -1, <<>>),
      FsDir(RootName, FALSE, -1, <<FileB, FileC>>),
      FsDir(RootName, FALSE, -1, <<FsDir(<<"d">>, TRUE, -1, <<FileA>>)>>),
      FsDir(RootName, FALSE, -1, <<FsDir(<<"d">>, FALSE, 0, <<FileA>>), FileA>>),
      FsDir(RootName, FALSE, -1, <<FsDir(<<"d">>, FALSE, 1, <<FileA, FileB>>)>>),
      FsDir(RootName, FALSE, -1, <<FsDenied(<<"a">>), FileB>>),
      FsDir(RootName, FALSE, -1, <<FsFile(<<"a">>, 1, TRUE)>>),
      FsFile(RootName, 1, FALSE),
      FsMissing(RootName) }

\* path.exists()
Exists(e) == e.kind # "missing"

----------------------------------------------------------------------------
(* Threads *)

Threads == 1..MaxScans

\* Thread.is_alive(): from start() until the target function has returned
IsAlive(w) == workers[w].pc \notin {"unborn", "dead"}

\* Percent without the cap of min
PercentUncapped(current, total) == (current * 100) \div total

\* percent = min(100.0, current / total * 100.0), whole percents
Percent(current, total) == Min(100, (current * 100) \div total)

\* a handler reads the result fields while scan_running has the value running;
\* used: it found a result and works on it
Read(op, used, running) ==
    [op |-> op, alive |-> \E w \in Threads : IsAlive(w), running |-> running,
     used |-> used]

NoArg == [kind |-> "none"]

AppInit ==
    LET NoRead == [op |-> "none", alive |-> FALSE, running |-> FALSE, used |-> FALSE]
    IN
    LET Unborn == [pc |-> "unborn", res |-> None, ticked |-> 0]
    IN
    /\ fs = FsMissing(RootName)
    /\ fsChanged = FALSE
    /\ root_node = None
    /\ ext_stats = <<>>
    /\ scan_error = "unset"
    /\ top_files = <<>>
    /\ scan_thread = 0
    /\ workers = [w \in Threads |-> Unborn]
    /\ scan_running = FALSE
    /\ current_scan_path = <<>>
    /\ progress_total = 0
    /\ progress_current = 0
    /\ progress_var = 0
    /\ lbl_status = "ready"
    /\ btn_export = "disabled"
    /\ views = "empty"
    /\ pollPending = 0
    /\ uiPc = "idle"
    /\ shown = <<>>
    /\ finalized = [w \in Threads |-> 0]
    /\ lastRead = NoRead
    /\ max_level_var = 5
    /\ tree = {}

Init == AppInit /\ arg = NoArg /\ ret = NoArg

----------------------------------------------------------------------------
(* The UI thread: on_select_folder *)

\* ScanBusy without the test of scan_running
ScanBusyNever == FALSE

\* line 358: if self.scan_running
ScanBusy == scan_running

\* line 358-360: a scan is running, the request is refused
SelectRejected ==
    /\ uiPc = "idle"
    /\ ScanBusy
    /\ shown' = <<"warning: analyse en cours">>
    /\ UNCHANGED <<fs, fsChanged, root_node, ext_stats, scan_error, top_files,
                   scan_thread, workers, scan_running, current_scan_path,
                   progress_total, progress_current, progress_var, lbl_status,
                   btn_export, views, pollPending, uiPc, finalized, lastRead, max_level_var, tree, arg, ret>>

\* line 362-364: the folder dialog is cancelled
SelectCancelled ==
    /\ uiPc = "idle"
    /\ ~ScanBusy
    /\ shown' = <<>>
    /\ UNCHANGED <<fs, fsChanged, root_node, ext_stats, scan_error, top_files,
                   scan_thread, workers, scan_running, current_scan_path,
                   progress_total, progress_current, progress_var, lbl_status,
                   btn_export, views, pollPending, uiPc, finalized, lastRead, max_level_var, tree, arg, ret>>

\* line 366-371: nothing exists at the chosen path
SelectMissing(folder) ==
    /\ uiPc = "idle"
    /\ ~ScanBusy
    /\ ~Exists(folder)
    /\ shown' = <<"error: dossier inexistant">>
    /\ UNCHANGED <<fs, fsChanged, root_node, ext_stats, scan_error, top_files,
                   scan_thread, workers, scan_running, current_scan_path,
                   progress_total, progress_current, progress_var, lbl_status,
                   btn_export, views, pollPending, uiPc, finalized, lastRead, max_level_var, tree, arg, ret>>

\* line 373-387: counters reset, views cleared, worker started, poll scheduled
SelectStart(folder) ==
        \* the test made on the chosen path before a scan is started (line 367)
    LET RootAccepted(folder0) == Exists(folder0)
    IN
    LET Started == {w \in Threads : workers[w].pc # "unborn"}
    IN
    /\ uiPc = "idle"
    /\ ~ScanBusy
    /\ RootAccepted(folder)
    /\ Cardinality(Started) < MaxScans
    /\ LET w == Cardinality(Started) + 1
       IN  /\ scan_thread' = w
           /\ workers' = [workers EXCEPT ![w] = [pc |-> "start", res |-> None,
                                                 ticked |-> 0]]
    /\ fs' = folder
    /\ fsChanged' = FALSE
    /\ current_scan_path' = <<folder.name>>
    /\ progress_total' = count_entries(folder)
    /\ progress_current' = 0
    /\ progress_var' = 0
    /\ scan_running' = TRUE
    /\ btn_export' = "disabled"
    /\ lbl_status' = "scanning"
    /\ views' = "empty"
    /\ tree' = {}
    /\ top_files' = <<>>
    /\ pollPending' = pollPending + 1
    /\ shown' = <<>>
    /\ UNCHANGED <<root_node, ext_stats, scan_error, uiPc, finalized, lastRead,
                   max_level_var, arg, ret>>

on_select_folder ==
    \/ SelectRejected
    \/ SelectCancelled
    \/ \E folder \in AppFolders : SelectMissing(folder)
    \/ \E folder \in AppFolders : SelectStart(folder)

----------------------------------------------------------------------------
(* The disk *)

\* the chosen root is removed or becomes unreadable after the request was
\* accepted and before the worker looks at it
FsRootChange ==
    /\ \E w \in Threads : workers[w].pc = "start"
    /\ ~fsChanged
    /\ fs' \in {FsMissing(RootName), FsDenied(RootName)}
    /\ fsChanged' = TRUE
    /\ UNCHANGED <<root_node, ext_stats, scan_error, top_files, scan_thread,
                   workers, scan_running, current_scan_path, progress_total,
                   progress_current, progress_var, lbl_status, btn_export, views,
                   pollPending, uiPc, shown, finalized, lastRead, max_level_var, tree, arg,
                   ret>>

----------------------------------------------------------------------------
(* The worker thread: _scan_worker *)

\* line 391: scan_directory is entered
WorkerBegin(w) ==
    /\ workers[w].pc = "start"
    /\ workers' = [workers EXCEPT ![w] = [pc |-> "scan", res |-> scan_directory(fs),
                                          ticked |-> 0]]
    /\ UNCHANGED <<fs, fsChanged, root_node, ext_stats, scan_error, top_files,
                   scan_thread, scan_running, current_scan_path, progress_total,
                   progress_current, progress_var, lbl_status, btn_export, views,
                   pollPending, uiPc, shown, finalized, lastRead, max_level_var, tree, arg,
                   ret>>

\* line 400-401: _progress_tick, once per listed entry
WorkerTick(w) ==
    /\ workers[w].pc = "scan"
    /\ workers[w].ticked < workers[w].res.ticks
    /\ progress_current' = progress_current + 1
    /\ workers' = [workers EXCEPT ![w].ticked = @ + 1]
    /\ UNCHANGED <<fs, fsChanged, root_node, ext_stats, scan_error, top_files,
                   scan_thread, scan_running, current_scan_path, progress_total,
                   progress_var, lbl_status, btn_export, views, pollPending, uiPc,
                   shown, finalized, lastRead, max_level_var, tree, arg,
                   ret>>

\* line 392 / 396
WorkerStoreRoot(w) ==
    /\ workers[w].pc = "scan"
    /\ workers[w].ticked = workers[w].res.ticks
    /\ root_node' = IF workers[w].res.raised THEN None ELSE workers[w].res.node
    /\ workers' = [workers EXCEPT ![w].pc = "store_ext"]
    /\ UNCHANGED <<fs, fsChanged, ext_stats, scan_error, top_files, scan_thread,
                   scan_running, current_scan_path, progress_total,
                   progress_current, progress_var, lbl_status, btn_export, views,
                   pollPending, uiPc, shown, finalized, lastRead, max_level_var, tree, arg,
                   ret>>

\* line 393 / 397
WorkerStoreExt(w) ==
    /\ workers[w].pc = "store_ext"
    /\ ext_stats' = IF workers[w].res.raised THEN <<>> ELSE workers[w].res.ext
    /\ workers' = [workers EXCEPT ![w].pc = "store_err"]
    /\ UNCHANGED <<fs, fsChanged, root_node, scan_error, top_files, scan_thread,
                   scan_running, current_scan_path, progress_total,
                   progress_current, progress_var, lbl_status, btn_export, views,
                   pollPending, uiPc, shown, finalized, lastRead, max_level_var, tree, arg,
                   ret>>

\* line 394 / 398
WorkerStoreErr(w) ==
    /\ workers[w].pc = "store_err"
    /\ scan_error' = IF workers[w].res.raised THEN "OSError" ELSE "None"
    /\ workers' = [workers EXCEPT ![w].pc = "exit"]
    /\ UNCHANGED <<fs, fsChanged, root_node, ext_stats, top_files, scan_thread,
                   scan_running, current_scan_path, progress_total,
                   progress_current, progress_var, lbl_status, btn_export, views,
                   pollPending, uiPc, shown, finalized, lastRead, max_level_var, tree, arg,
                   ret>>

\* the target function has returned: the thread is no longer alive
WorkerExit(w) ==
    LET Dead == [pc |-> "dead", res |-> None, ticked |-> 0]
    IN
    /\ workers[w].pc = "exit"
    /\ workers' = [workers EXCEPT ![w] = Dead]
    /\ UNCHANGED <<fs, fsChanged, root_node, ext_stats, scan_error, top_files,
                   scan_thread, scan_running, current_scan_path, progress_total,
                   progress_current, progress_var, lbl_status, btn_export, views,
                   pollPending, uiPc, shown, finalized, lastRead, max_level_var, tree, arg,
                   ret>>

_scan_worker(w) ==
    \/ WorkerBegin(w)
    \/ WorkerTick(w)
    \/ WorkerStoreRoot(w)
    \/ WorkerStoreExt(w)
    \/ WorkerStoreErr(w)
    \/ WorkerExit(w)

----------------------------------------------------------------------------
(* The UI thread: _poll_scan_thread *)

\* line 404-407: the callback fires and refreshes the progress display
PollRead ==
    LET StatusShown ==
            IF progress_total > 0 /\ current_scan_path # <<>> THEN "progress" ELSE lbl_status
    IN
        \* line 422-434: _update_progress_ui
    LET ProgressShown == IF progress_total <= 0 THEN 0 ELSE Percent(progress_current, progress_total)
    IN
    /\ uiPc = "idle"
    /\ pollPending > 0
    /\ pollPending' = pollPending - 1
    /\ shown' = <<>>
    /\ IF scan_thread = 0
       THEN UNCHANGED <<progress_var, lbl_status, uiPc>>
       ELSE /\ progress_var' = ProgressShown
            /\ lbl_status' = StatusShown
            /\ uiPc' = "poll_alive"
    /\ UNCHANGED <<fs, fsChanged, root_node, ext_stats, scan_error, top_files,
                   scan_thread, workers, scan_running, current_scan_path,
                   progress_total, progress_current, btn_export, views, finalized,
                   lastRead, max_level_var, tree, arg,
                   ret>>

\* PollSeesAlive without the call of is_alive()
PollSkipsAliveCheck == FALSE

\* line 409: self.scan_thread.is_alive()
PollSeesAlive == IsAlive(scan_thread)

\* line 409-410: the worker is alive, the next poll is scheduled
PollReschedule ==
    /\ uiPc = "poll_alive"
    /\ PollSeesAlive
    /\ pollPending' = pollPending + 1
    /\ uiPc' = "idle"
    /\ UNCHANGED <<fs, fsChanged, root_node, ext_stats, scan_error, top_files,
                   scan_thread, workers, scan_running, current_scan_path,
                   progress_total, progress_current, progress_var, lbl_status,
                   btn_export, views, shown, finalized, lastRead, max_level_var, tree, arg,
                   ret>>

\* line 411-420: the finalization pass
PollFinalize ==
        \* line 413: getattr(self, "_scan_error", None) is truthy
    LET ScanFailed == scan_error \notin {"unset", "None"}
    IN
    /\ uiPc = "poll_alive"
    /\ ~PollSeesAlive
    /\ scan_running' = FALSE
    /\ finalized' = [finalized EXCEPT ![scan_thread] = @ + 1]
    /\ lastRead' = Read("finalize", TRUE, FALSE)
    /\ uiPc' = "idle"
    /\ IF ScanFailed
       THEN /\ shown' = <<"error: erreur d'analyse">>
            /\ lbl_status' = "error"
            /\ UNCHANGED <<top_files, views, tree, btn_export>>
       ELSE IF root_node = None
       THEN \* self.root_node.path raises: the callback ends here
            UNCHANGED <<shown, lbl_status, top_files, views, tree, btn_export>>
       ELSE /\ lbl_status' = "done"
            /\ top_files' = _compute_top_files(root_node)
            /\ views' = "populated"
            /\ tree' = add_node(root_node, <<>>, max_level_var)
            /\ btn_export' = "normal"
            /\ UNCHANGED shown
    /\ UNCHANGED <<fs, fsChanged, root_node, ext_stats, scan_error, scan_thread,
                   workers, current_scan_path, progress_total, progress_current,
                   progress_var, pollPending, max_level_var, arg,
                   ret>>

_poll_scan_thread == PollRead \/ PollReschedule \/ PollFinalize

----------------------------------------------------------------------------
(* The UI thread: the handlers that read the scan result *)

\* line 1050-1058 and 905-913: "if not self.root_node" then _compute_top_files
UseResult(op) ==
    /\ uiPc = "idle"
    /\ IF root_node = None
       THEN /\ shown' = <<"warning: aucun resultat">>
            /\ lastRead' = Read(op, FALSE, scan_running)
            /\ UNCHANGED top_files
       ELSE /\ shown' = <<>>
            /\ lastRead' = Read(op, TRUE, scan_running)
            /\ top_files' = _compute_top_files(root_node)
    /\ UNCHANGED <<fs, fsChanged, root_node, ext_stats, scan_error, scan_thread,
                   workers, scan_running, current_scan_path, progress_total,
                   progress_current, progress_var, lbl_status, btn_export, views,
                   pollPending, uiPc, finalized, max_level_var, tree, arg,
                   ret>>

on_export_results == UseResult("on_export_results")

on_send_report == UseResult("on_send_report")

\* line 436-440: an arrow of the depth spinbox sets the depth to level and
\* calls the handler; the tree view is cleared and filled again
on_change_max_level(level) ==
    /\ uiPc = "idle"
    /\ shown' = <<>>
    /\ max_level_var' = level
    /\ IF root_node = None \/ scan_running
       THEN /\ lastRead' = Read("on_change_max_level", FALSE, scan_running)
            /\ UNCHANGED <<views, tree>>
       ELSE /\ lastRead' = Read("on_change_max_level", TRUE, scan_running)
            /\ views' = "populated"
            /\ tree' = add_node(root_node, <<>>, level)
    /\ UNCHANGED <<fs, fsChanged, root_node, ext_stats, scan_error, top_files,
                   scan_thread, workers, scan_running, current_scan_path,
                   progress_total, progress_current, progress_var, lbl_status,
                   btn_export, pollPending, uiPc, finalized, arg,
                   ret>>

----------------------------------------------------------------------------
(* The application *)

Next ==
    \/ on_select_folder
    \/ FsRootChange
    \/ \E w \in Threads : _scan_worker(w)
    \/ _poll_scan_thread
    \/ on_export_results
    \/ on_send_report
    \/ on_change_max_level(max_level_var)

Spec == Init /\ [][Next]_vars

\* the worker thread runs on, and Tk's event loop fires a pending after()
\* callback and lets a running callback finish
Fairness ==
    /\ \A w \in Threads : WF_vars(_scan_worker(w))
    /\ WF_vars(_poll_scan_thread)

LiveSpec == Init /\ [][Next]_vars /\ Fairness

----------------------------------------------------------------------------
(* The context menus of the tree view and of the list of largest files *)

RECURSIVE FsFind(_, _)
\* what is behind the path (the names from the scanned root e down), FsMissing
\* when there is nothing
FsFind(e, path) ==
    IF e.name # Head(path) THEN FsMissing(Head(path))
    ELSE IF Len(path) = 1 THEN e
    ELSE LET hit == {i \in DOMAIN e.entries : e.entries[i].name = path[2]}
         IN  IF hit = {} THEN FsMissing(path[2])
             ELSE FsFind(e.entries[CHOOSE i \in hit : TRUE], Tail(path))

RECURSIVE FsEdit(_, _, _)
\* os.rename / shutil.rmtree / os.remove: e with what is behind the path
\* renamed to new_name, or removed when new_name is empty
FsEdit(e, path, new_name) ==
    LET hit == {i \in DOMAIN e.entries : e.entries[i].name = path[2]}
        i == CHOOSE x \in hit : TRUE
    IN  IF e.name # Head(path) THEN e
        ELSE IF Len(path) = 1
        THEN IF new_name = <<>> THEN FsMissing(e.name) ELSE [e EXCEPT !.name = new_name]
        ELSE IF hit = {} THEN e
        ELSE IF Len(path) = 2 /\ new_name = <<>>
        THEN [e EXCEPT !.entries = SubSeq(@, 1, i - 1) \o SubSeq(@, i + 1, Len(@))]
        ELSE [e EXCEPT !.entries[i] = FsEdit(@, Tail(path), new_name)]

RECURSIVE NodeAt(_, _)
\* id_to_node: the node of the item at the place loc
NodeAt(node, loc) ==
    IF loc = <<>> THEN node ELSE NodeAt(node.children[Head(loc)], Tail(loc))

RECURSIVE Replace(_, _, _)
\* the tree with the node at loc replaced in its parent's children by the
\* nodes put (one node: its fields were assigned; none: it was filtered out)
Replace(node, loc, put) ==
    IF Len(loc) = 1
    THEN [node EXCEPT !.children = SubSeq(@, 1, loc[1] - 1) \o put
                                       \o SubSeq(@, loc[1] + 1, Len(@))]
    ELSE [node EXCEPT !.children[loc[1]] = Replace(@, Tail(loc), put)]

\* line 610-661: Renommer on the item at loc, new_name typed in the dialog
\* (empty: cancelled), refused: os.rename raises
cmd_rename_node(loc, new_name, refused) ==
    /\ uiPc = "idle"
    /\ loc \in tree
    /\ LET node == NodeAt(root_node, loc)
           new_path == [node.path EXCEPT ![Len(node.path)] = new_name]
           \* line 648 and _update_child_paths: the part number depth of the
           \* path of the node n and of every node below it becomes new_name
           RECURSIVE Reroot(_, _)
           Reroot(n, depth) ==
               [n EXCEPT !.path = [@ EXCEPT ![depth] = new_name],
                         !.children = [i \in DOMAIN @ |-> Reroot(@[i], depth)]]
       IN  IF loc = <<>>
           THEN shown' = <<"warning: renommage refuse">> /\ UNCHANGED <<fs, root_node>>
           ELSE IF new_name = <<>> \/ new_name = node.name
           THEN shown' = <<>> /\ UNCHANGED <<fs, root_node>>
           ELSE IF Exists(FsFind(fs, new_path))
           THEN shown' = <<"error: existe deja">> /\ UNCHANGED <<fs, root_node>>
           ELSE IF refused \/ ~Exists(FsFind(fs, node.path))
           THEN shown' = <<"error: erreur de renommage">> /\ UNCHANGED <<fs, root_node>>
           ELSE /\ fs' = FsEdit(fs, node.path, new_name)
                /\ root_node' = Replace(root_node, loc,
                                    <<Reroot([node EXCEPT !.name = new_name],
                                             Len(node.path))>>)
                /\ shown' = <<"info: renommage effectue">>
    /\ UNCHANGED <<fsChanged, ext_stats, scan_error, top_files, scan_thread, workers,
                   scan_running, current_scan_path, progress_total, progress_current,
                   progress_var, lbl_status, btn_export, views, pollPending, uiPc,
                   finalized, lastRead, max_level_var, tree, arg, ret>>

\* line 673-737: Supprimer on the item at loc; confirmed: the answer to
\* askyesno, refused: the removal raises
cmd_delete_node(loc, confirmed, refused) ==
    /\ uiPc = "idle"
    /\ loc \in tree
    /\ LET node == NodeAt(root_node, loc)
           n == Len(loc)
           Moved(l) == IF /\ Len(l) >= n
                          /\ SubSeq(l, 1, n - 1) = SubSeq(loc, 1, n - 1)
                          /\ l[n] > loc[n]
                       THEN [l EXCEPT ![n] = @ - 1] ELSE l
       IN  IF loc = <<>>
           THEN shown' = <<"warning: suppression refusee">>
                /\ UNCHANGED <<fs, root_node, tree>>
           ELSE IF FsFind(fs, node.path).kind = "denied"
           THEN \* path.exists() raises: the callback ends there
                shown' = <<>> /\ UNCHANGED <<fs, root_node, tree>>
           ELSE IF ~Exists(FsFind(fs, node.path))
           THEN shown' = <<"error: chemin introuvable">>
                /\ UNCHANGED <<fs, root_node, tree>>
           ELSE IF ~confirmed
           THEN shown' = <<>> /\ UNCHANGED <<fs, root_node, tree>>
           ELSE IF refused
           THEN shown' = <<"error: erreur de suppression">>
                /\ UNCHANGED <<fs, root_node, tree>>
           ELSE /\ fs' = FsEdit(fs, node.path, <<>>)
                /\ root_node' = Replace(root_node, loc, <<>>)
                /\ tree' = {Moved(l) : l \in {x \in tree : ~IsPrefix(loc, x)}}
                /\ shown' = <<"info: suppression effectuee">>
    /\ UNCHANGED <<fsChanged, ext_stats, scan_error, top_files, scan_thread, workers,
                   scan_running, current_scan_path, progress_total, progress_current,
                   progress_var, lbl_status, btn_export, views, pollPending, uiPc,
                   finalized, lastRead, max_level_var, arg, ret>>

\* line 776-823: Renommer on the k-th row of the list of largest files (the
\* rows of the view are those of top_files)
cmd_top_rename(k, new_name, refused) ==
    /\ uiPc = "idle"
    /\ views = "populated"
    /\ k \in DOMAIN top_files
    /\ LET path == top_files[k].path
           new_path == [path EXCEPT ![Len(path)] = new_name]
           first == CHOOSE i \in DOMAIN top_files :
                        /\ top_files[i].path = path
                        /\ \A j \in 1..(i - 1) : top_files[j].path # path
       IN  IF FsFind(fs, path).kind = "denied"
           THEN \* path.exists() raises: the callback ends there
                shown' = <<>> /\ UNCHANGED <<fs, top_files>>
           ELSE IF ~Exists(FsFind(fs, path))
           THEN shown' = <<"error: chemin introuvable">> /\ UNCHANGED <<fs, top_files>>
           ELSE IF new_name = <<>> \/ new_name = path[Len(path)]
           THEN shown' = <<>> /\ UNCHANGED <<fs, top_files>>
           ELSE IF Exists(FsFind(fs, new_path))
           THEN shown' = <<"error: existe deja">> /\ UNCHANGED <<fs, top_files>>
           ELSE IF refused
           THEN shown' = <<"error: erreur de renommage">> /\ UNCHANGED <<fs, top_files>>
           ELSE /\ fs' = FsEdit(fs, path, new_name)
                /\ top_files' = [top_files EXCEPT ![first].path = new_path,
                                                  ![first].name = new_name]
                /\ shown' = <<"info: renommage effectue">>
    /\ UNCHANGED <<fsChanged, root_node, ext_stats, scan_error, scan_thread, workers,
                   scan_running, current_scan_path, progress_total, progress_current,
                   progress_var, lbl_status, btn_export, views, pollPending, uiPc,
                   finalized, lastRead, max_level_var, tree, arg, ret>>

\* line 825-875: Supprimer on the k-th row of the list of largest files
cmd_top_delete(k, confirmed, refused) ==
    /\ uiPc = "idle"
    /\ views = "populated"
    /\ k \in DOMAIN top_files
    /\ LET path == top_files[k].path
           kept == {i \in DOMAIN top_files : top_files[i].path # path}
       IN  IF FsFind(fs, path).kind = "denied"
           THEN \* path.exists() raises: the callback ends there
                shown' = <<>> /\ UNCHANGED <<fs, top_files>>
           ELSE IF ~Exists(FsFind(fs, path))
           THEN shown' = <<"error: chemin introuvable">> /\ UNCHANGED <<fs, top_files>>
           ELSE IF ~confirmed
           THEN shown' = <<>> /\ UNCHANGED <<fs, top_files>>
           ELSE IF refused
           THEN shown' = <<"error: erreur de suppression">> /\ UNCHANGED <<fs, top_files>>
           ELSE /\ fs' = FsEdit(fs, path, <<>>)
                /\ top_files' = [j \in 1..Cardinality(kept) |-> top_files[NthOf(kept, j)]]
                /\ shown' = <<"info: suppression effectuee">>
    /\ UNCHANGED <<fsChanged, root_node, ext_stats, scan_error, scan_thread, workers,
                   scan_running, current_scan_path, progress_total, progress_current,
                   progress_var, lbl_status, btn_export, views, pollPending, uiPc,
                   finalized, lastRead, max_level_var, tree, arg, ret>>

\* before any scan, after a scan, or while a second scan is starting
ViewInit ==
    LET \* the application once the first scan, of folder, has been finalized, and,
        \* when again holds, a second scan of it has just been started
        ViewStart(folder, again) ==
            LET res == scan_directory(folder)
            IN  /\ fs = folder
                /\ fsChanged = FALSE
                /\ root_node = res.node
                /\ ext_stats = res.ext
                /\ scan_error = "None"
                /\ top_files = IF again THEN <<>> ELSE _compute_top_files(res.node)
                /\ scan_thread = IF again THEN 2 ELSE 1
                /\ workers = [w \in Threads |->
                                 IF w = 1 THEN [pc |-> "dead", res |-> None, ticked |-> 0]
                                 ELSE IF w = 2 /\ again
                                 THEN [pc |-> "start", res |-> None, ticked |-> 0]
                                 ELSE [pc |-> "unborn", res |-> None, ticked |-> 0]]
                /\ scan_running = again
                /\ current_scan_path = <<folder.name>>
                /\ progress_total = count_entries(folder)
                /\ progress_current = IF again THEN 0 ELSE res.ticks
                /\ progress_var = IF again THEN 0 ELSE Percent(res.ticks, count_entries(folder))
                /\ lbl_status = IF again THEN "scanning" ELSE "done"
                /\ btn_export = IF again THEN "disabled" ELSE "normal"
                /\ views = IF again THEN "empty" ELSE "populated"
                /\ pollPending = IF again THEN 1 ELSE 0
                /\ uiPc = "idle"
                /\ shown = <<>>
                /\ finalized = [w \in Threads |-> IF w = 1 THEN 1 ELSE 0]
                /\ lastRead = [op |-> "finalize", alive |-> FALSE, running |-> FALSE,
                               used |-> TRUE]
                /\ max_level_var = 5
                /\ tree = IF again THEN {} ELSE add_node(res.node, <<>>, 5)
    IN
    /\ \/ AppInit
       \/ \E folder \in {f \in AppFolders : Exists(f)}, again \in BOOLEAN :
              ViewStart(folder, again)
    /\ arg = NoArg
    /\ ret = NoArg

\* line 185-186: the range of the depth spinbox
SpinFrom == 1

SpinTo == 20

\* the entries Renommer and Supprimer of the two context menus, with the
\* names typed in the rename dialogs: none, one in use, a new one
ContextMenus ==
    \/ \E loc \in tree, new_name \in {<<>>, <<"a">>, <<"z">>}, refused \in BOOLEAN :
           cmd_rename_node(loc, new_name, refused)
    \/ \E loc \in tree, confirmed \in BOOLEAN, refused \in BOOLEAN :
           cmd_delete_node(loc, confirmed, refused)
    \/ \E k \in DOMAIN top_files, new_name \in {<<>>, <<"a">>, <<"z">>}, refused \in BOOLEAN :
           cmd_top_rename(k, new_name, refused)
    \/ \E k \in DOMAIN top_files, confirmed \in BOOLEAN, refused \in BOOLEAN :
           cmd_top_delete(k, confirmed, refused)

\* the arrows of the spinbox and the context menus
ViewNext ==
    \/ \E level \in {IF max_level_var > SpinFrom THEN max_level_var - 1 ELSE SpinFrom,
                      Min(SpinTo, max_level_var + 1)} :
           on_change_max_level(level)
    \/ ContextMenus

ViewSpec == ViewInit /\ [][ViewNext]_vars

\* the context menus, the export and the report, at the depth first shown
EditNext ==
    \/ ContextMenus
    \/ on_export_results
    \/ on_send_report

EditSpec == ViewInit /\ [][EditNext]_vars

----------------------------------------------------------------------------
(* The pure functions applied to every input within the bounds *)

ScanInit ==
        \* digits that make the cases of human_size: nothing, something, a quarter,
        \* a half and all but nothing of the next unit
    LET ByteDigits == {0, 1, Kilo \div 4, Kilo \div 2, Kilo - 1}
    IN
        \* the byte counts of at most n digits, no zero in front except for 0 itself
    LET ByteCounts(n) ==
            {d \in UNION {[1..k -> ByteDigits] : k \in 1..n} :
                 Len(d) = 1 \/ d[Len(d)] # 0}
    IN
    /\ AppInit
    /\ arg \in {[kind |-> "fs", root |-> r] : r \in FsRoots(MaxEntries, MaxSize)}
               \cup {[kind |-> "wide", root |-> r] : r \in WideRoots(TopK, MaxEntries)}
               \cup {[kind |-> "bytes", n |-> n] : n \in ByteCounts(MaxDigits)}
    /\ ret = NoArg

CallScanDirectory ==
    /\ ret = NoArg
    /\ arg.kind = "fs"
    /\ ret' = [kind |-> "scan_directory", res |-> scan_directory(arg.root)]
    /\ UNCHANGED <<appVars, arg>>

CallCountEntries ==
    /\ ret = NoArg
    /\ arg.kind = "fs"
    /\ ret' = [kind |-> "count_entries", n |-> count_entries(arg.root)]
    /\ UNCHANGED <<appVars, arg>>

\* _compute_top_files on the root_node the worker stores for the tree
CallComputeTopFiles ==
    /\ ret = NoArg
    /\ arg.kind \in {"fs", "wide"}
    /\ LET r == scan_directory(arg.root)
           node == IF r.raised THEN None ELSE r.node
       IN  ret' = [kind |-> "_compute_top_files", node |-> node,
                   top_files |-> _compute_top_files(node)]
    /\ UNCHANGED <<appVars, arg>>

\* the calls of progress_callback one complete scan of e makes.  In
\* WinDirScope_21 they are counted by _scan; WinDirScope_08 and WinDirScope_16
\* call it in the finally clause of the loop over the entries, whether the
\* scan of the entry returned or raised, and once more in the file branch
progress_calls(version, e) ==
    LET RECURSIVE Calls(_)
        Calls(x) ==
            IF x.kind = "denied" THEN 0
            ELSE IF x.kind = "dir"
            THEN LET listed == IF x.failAt = -1 THEN Len(x.entries) ELSE x.failAt
                 IN  SumSeq([i \in 1..listed |-> Calls(x.entries[i]) + 1])
            ELSE 1
    IN  IF version = 21 THEN scan_directory(e).ticks ELSE Calls(e)

CallProgressCalls(version) ==
    /\ ret = NoArg
    /\ arg.kind = "fs"
    /\ ret' = [kind |-> "progress_callback", version |-> version,
                calls |-> progress_calls(version, arg.root)]
    /\ UNCHANGED <<appVars, arg>>

CallHumanSize ==
    /\ ret = NoArg
    /\ arg.kind = "bytes"
    /\ ret' = [kind |-> "human_size", text |-> human_size(arg.n)]
    /\ UNCHANGED <<appVars, arg>>

ScanNext ==
    \/ CallScanDirectory
    \/ CallCountEntries
    \/ CallComputeTopFiles
    \/ \E version \in {8, 16, 21} : CallProgressCalls(version)
    \/ CallHumanSize

ScanSpec == ScanInit /\ [][ScanNext]_vars

----------------------------------------------------------------------------
(* The exports applied to every scan result within the bounds *)

\* folders whose names hold the characters the export formats treat specially
SpecialFolders ==
    { FsDir(RootName, FALSE, -1,
            <<FsFile(<<"a", ";", "b">>, 1, FALSE), FsFile(<<"\"", "a">>, 2, FALSE)>>),
      FsDir(RootName, FALSE, -1,
            <<FsDir(<<"d", "\\">>, FALSE, -1, <<FsFile(<<"a", "\"", "\"">>, 1, FALSE)>>),
              FsFile(<<"\\", "n">>, 1, FALSE)>>),
      FsDir(RootName, FALSE, -1,
            <<FsFile(<<"a", "\n", "b">>, 1, FALSE),
              FsFile(<<"<", "&", ">">>, 1, FALSE),
              FsFile(<<";">>, 2, FALSE)>>) }

\* what the worker stores for the roots it can scan
ScanResults(roots) ==
    {scan_directory(r) : r \in {x \in roots : ~scan_directory(x).raised}}

ReportInit ==
        \* names given in the save dialog: every known suffix, in capitals, none, unknown
    LET BaseNames ==
            { <<"x", ".", "j", "s", "o", "n">>, <<"x", ".", "J", "S", "O", "N">>,
              <<"x", ".", "t", "x", "t">>, <<"x", ".", "h", "t", "m", "l">>,
              <<"x", ".", "h", "t", "m">>, <<"x", ".", "c", "s", "v">>,
              <<"x">>, <<"x", ".", "T">> }
    IN
        \* what one exporter may meet: the file cannot be opened for writing, or a
        \* write fails after it was created
    LET ExportOutcomes == {"ok", "open fails", "write fails"}
    IN
    /\ AppInit
    /\ arg \in {[kind |-> "result", root_node |-> r.node, ext_stats |-> r.ext]
                   : r \in ScanResults(FsRoots(MaxEntries, MaxSize) \cup SpecialFolders)}
               \cup {[kind |-> "export", base_path |-> x[1], outcomes |-> x[2]]
                      : x \in BaseNames \X [1..3 -> ExportOutcomes]}
    /\ ret = NoArg

CallExportTreeCsv ==
    /\ arg.kind = "result"
    /\ ret' = [kind |-> "_export_tree_csv", file |-> _export_tree_csv(arg.root_node)]
    /\ UNCHANGED <<appVars, arg>>

CallExportTreeJson ==
    /\ arg.kind = "result"
    /\ ret' = [kind |-> "_export_tree_json", file |-> _export_tree_json(arg.root_node)]
    /\ UNCHANGED <<appVars, arg>>

CallExportTreeTxt ==
    /\ arg.kind = "result"
    /\ ret' = [kind |-> "_export_tree_txt", rows |-> _flatten_tree(arg.root_node),
                lines |-> _export_tree_txt(arg.root_node)]
    /\ UNCHANGED <<appVars, arg>>

\* on_export_results once root_node is set and a name was chosen
CallExportRun ==
    /\ arg.kind = "export"
    /\ ret' = [kind |-> "on_export_results",
                run |-> ExportRun(arg.base_path, arg.outcomes)]
    /\ UNCHANGED <<appVars, arg>>

ReportNext ==
    \/ CallExportTreeCsv
    \/ CallExportTreeJson
    \/ CallExportTreeTxt
    \/ CallExportRun

ReportSpec == ReportInit /\ [][ReportNext]_vars

----------------------------------------------------------------------------
(* The report opened in a browser: the filter inputs and the two buttons *)

\* what may be typed in the name input: nothing, a letter, a capital, a
\* blank, a letter followed by a blank, a character esc rewrites
NameValues == {<<>>, <<"a">>, <<"T">>, <<" ">>, <<"d", " ">>, <<"&">>}

\* the maximum depths that may be asked for (<<>>: the input is left empty)
DepthChoices == {<<>>} \cup {<<d>> : d \in 0..MaxEntries}

\* the value of the number input for a depth
LevelText(depth) == IF depth = <<>> THEN <<>> ELSE IntToStr(depth[1])

RECURSIVE Readable(_)
\* nothing fails on the entry nor below it, and nothing is a link
Readable(e) ==
    /\ e.kind \in {"file", "dir"}
    /\ ~e.statFails /\ ~e.link /\ e.failAt = -1
    /\ \A i \in DOMAIN e.entries : Readable(e.entries[i])

PageInit ==
        \* the trees shown in a report: the scans of the readable folders (what fails
        \* during a scan changes no attribute the filter reads)
    LET PageTrees ==
            {r.node : r \in ScanResults({e \in FsRoots(MaxEntries, 1) : Readable(e)}
                                         \cup SpecialFolders)}
    IN
        \* the versions that embed the filter: WinDirScope_16 and WinDirScope_21
    LET Versions == {16, 21}
    IN
    /\ AppInit
    /\ arg \in {[kind |-> "report", version |-> v, root_node |-> n]
                   : v \in Versions, n \in PageTrees}
    /\ ret = NoArg

\* _export_html writes the report and the browser loads it
OpenReport ==
        \* the page as the browser shows it first: inputs empty, nothing hidden, no
        \* data-match attribute
    LET LoadedPage(version, doc) ==
            [kind |-> "page", version |-> version, doc |-> doc, name_value |-> <<>>,
             level_value |-> <<>>, hidden |-> {}, match |-> [l \in Locs(doc) |-> ""],
             last |-> "load"]
    IN
    /\ arg.kind = "report"
    /\ ret.kind = "none"
    /\ ret' = LoadedPage(arg.version, node_to_html(arg.root_node))
    /\ UNCHANGED <<appVars, arg>>

\* the user edits the name input: its 'input' listener runs applyFilters
InputName(value) ==
    /\ ret.kind = "page"
    /\ value # ret.name_value
    /\ ret' = [applyFilters([ret EXCEPT !.name_value = value])
                  EXCEPT !.last = "name input"]
    /\ UNCHANGED <<appVars, arg>>

\* the user edits the level input: nothing listens to it
InputLevel(depth) ==
    /\ ret.kind = "page"
    /\ LevelText(depth) # ret.level_value
    /\ ret' = [ret EXCEPT !.level_value = LevelText(depth), !.last = "level input"]
    /\ UNCHANGED <<appVars, arg>>

\* click on filter-apply
ClickApply ==
    /\ ret.kind = "page"
    /\ ret' = [applyFilters(ret) EXCEPT !.last = "apply click"]
    /\ UNCHANGED <<appVars, arg>>

\* click on filter-reset
ClickReset ==
    /\ ret.kind = "page"
    /\ ret' = [resetFilters(ret) EXCEPT !.last = "reset click"]
    /\ UNCHANGED <<appVars, arg>>

PageNext ==
    \/ OpenReport
    \/ \E value \in NameValues : InputName(value)
    \/ \E depth \in DepthChoices : InputLevel(depth)
    \/ ClickApply
    \/ ClickReset

PageSpec == PageInit /\ [][PageNext]_vars

----------------------------------------------------------------------------
(* Properties of the scanner *)

RECURSIVE NodesOf(_)
\* the node and every node linked below it
NodesOf(node) ==
    {node} \cup UNION {NodesOf(node.children[i]) : i \in DOMAIN node.children}

FileNodes(node) == {n \in NodesOf(node) : ~n.is_dir}

RECURSIVE SumOver(_)
\* the sum of the sizes of a set of nodes (nodes differ by their path)
SumOver(nodes) ==
    IF nodes = {} THEN 0
    ELSE LET n == CHOOSE x \in nodes : TRUE IN n.size + SumOver(nodes \ {n})

ExtTotal(stats) == SumSeq([i \in DOMAIN stats |-> stats[i].size])

Returned == ret.kind = "scan_directory" /\ ~ret.res.raised

\* C1: in the tree scan_directory returns, whatever listings and stats failed,
\* the size of every directory node is the sum of the sizes of the children
\* linked under it.
C1_DirSizeIsSumOfChildren ==
    LET ChildSizes(node) == SumSeq([i \in DOMAIN node.children |-> node.children[i].size])
    IN
    Returned =>
        \A n \in NodesOf(ret.res.node) : n.is_dir => n.size = ChildSizes(n)

\* C1 witness: a directory whose listing failed after a file of it was linked
C1_Witness ==
    /\ Returned
    /\ \E n \in NodesOf(ret.res.node) :
          n.is_dir /\ n.access_denied /\ n.children # <<>> /\ n.size >= 1

\* C2: once scan_directory has returned, the values of the extension table add
\* up to the sizes of the file nodes linked in the tree, hence to root.size
\* when the root is a directory, also when children were dropped.
C2_ExtTotalIsFileTotal ==
    Returned =>
        /\ ExtTotal(ret.res.ext) = SumOver(FileNodes(ret.res.node))
        /\ ret.res.node.is_dir => ExtTotal(ret.res.ext) = ret.res.node.size

\* C2 witness: a root that lost a child (its is_dir raised) and kept a file
C2_Witness ==
    /\ Returned
    /\ ret.res.node.is_dir
    /\ ~ret.res.node.access_denied
    /\ Len(ret.res.node.children) < Len(arg.root.entries)
    /\ ExtTotal(ret.res.ext) >= 1

\* C3: a directory whose listing fails, on opening it or while iterating it,
\* gives a node with access_denied set, size 0 and no children, returned
\* normally to its parent.
C3_FailedListingIsEmpty ==
    Returned =>
        /\ (arg.root.kind = "dir" /\ arg.root.failAt # -1)
               => ret.res.node.access_denied
        /\ \A n \in NodesOf(ret.res.node) :
              n.access_denied => n.size = 0 /\ n.children = <<>>

----------------------------------------------------------------------------
(* Properties of the orchestration *)

Alive == {w \in Threads : IsAlive(w)}

\* C4: scan_directory on a root that is missing or is no directory raises,
\* and the worker then records the error, root_node None and ext_stats empty.
C4_InvalidRootIsFatal ==
        \* the worker has stored its three result fields and is about to end
    LET Stored(w) == workers[w].pc = "exit"
    IN
    \A w \in Threads :
        (Stored(w) /\ fs.kind \in {"missing", "file"})
            => scan_error = "OSError" /\ root_node = None /\ ext_stats = <<>>

\* C5: on_select_folder starts a worker only for a root that exists and is a
\* directory; for a missing root it reports the error once, starts no worker
\* and leaves scan_running and the progress counters as they were.
C5_WorkerOnlyForDirectory ==
    /\ [](\A w \in Threads :
              (workers[w].pc = "start" /\ ~fsChanged) => fs.kind = "dir")
    /\ [][(on_select_folder /\ shown' = <<"error: dossier inexistant">>)
              => /\ UNCHANGED <<workers, scan_thread, pollPending, scan_running,
                                progress_total, progress_current>>
                 /\ ~scan_running]_vars

\* C6: at most one worker is alive, and a scan request made while a scan is
\* running starts no worker, schedules no poll and leaves the counters, the
\* views and the result fields as they were.
C6_SingleScan ==
    /\ [](Cardinality(Alive) <= 1)
    /\ [][(on_select_folder /\ scan_running)
              => UNCHANGED <<workers, scan_thread, pollPending, scan_running,
                             progress_total, progress_current, progress_var,
                             views, top_files, root_node, ext_stats, scan_error,
                             current_scan_path, fs>>]_vars

\* C6 witness: a request was refused while the worker was alive
C6_Witness ==
    /\ shown = <<"warning: analyse en cours">>
    /\ Alive # {}
    /\ scan_running

\* a scan was started and its finalization pass has not been made
Unfinalized(w) == workers[w].pc # "unborn" /\ finalized[w] = 0

\* C7: the finalization pass is made exactly once for every started scan:
\* not before its worker has ended, not twice, and, whenever a started scan
\* awaits it, eventually for every started scan.
C7_FinalizedExactlyOnce ==
    /\ [](\A w \in Threads :
              /\ finalized[w] <= 1
              /\ finalized[w] = 1 => workers[w].pc = "dead")
    /\ (\E w \in Threads : Unfinalized(w))
           ~> (\A w \in Threads : workers[w].pc # "unborn" => finalized[w] = 1)

\* C7 witness: every scan of the run was started and finalized once, the last
\* one with its views populated
C7_Witness ==
    /\ \A w \in Threads : finalized[w] = 1
    /\ views = "populated"
    /\ ~scan_running

\* C8: the progress value left on display after a scan was read after the
\* poller saw the worker ended, so it is the one of the final progress_current.
C8_FinalProgressShown ==
        \* the latest scan has been finalized
    LET Finalized == scan_thread # 0 /\ finalized[scan_thread] >= 1 /\ ~scan_running
    IN
    (Finalized /\ progress_total > 0)
        => progress_var = Percent(progress_current, progress_total)

RECURSIVE EntriesFound(_)
\* N: the entries listed in the listable directories below a root
EntriesFound(e) ==
    IF e.kind # "dir" \/ e.failAt # -1 THEN 0
    ELSE Len(e.entries)
         + SumSeq([i \in DOMAIN e.entries |-> EntriesFound(e.entries[i])])

\* C9: on an unchanged disk, once the worker of a completed scan has ended,
\* progress_current is N, and for N >= 1 it is progress_total.
C9_CurrentIsTotal ==
    (/\ scan_thread # 0
     /\ workers[scan_thread].pc = "dead"
     /\ ~fsChanged
     /\ scan_error = "None")
        => /\ progress_current = EntriesFound(fs)
           /\ EntriesFound(fs) >= 1 => progress_current = progress_total

\* C10: the result fields are read, by the finalization pass and by the
\* export, report and depth handlers, only when no worker is alive and the
\* poller has seen the last worker ended.
C10_ResultReadAfterScan ==
    lastRead.used => ~lastRead.alive /\ ~lastRead.running

----------------------------------------------------------------------------
(* Properties of the list of largest files *)

TopComputed == ret.kind = "_compute_top_files" /\ ret.node # None

\* the rows of the list that stand for the file node n
RowsOf(n) == {i \in DOMAIN ret.top_files : ret.top_files[i].path = n.path}

\* the file nodes of the tree that the list leaves out
LeftOut == {n \in FileNodes(ret.node) : RowsOf(n) = {}}

\* the list has min(F, 100) rows, one per file at most, and no file left out
\* is larger than a file of the list
TopIsLargest ==
    /\ Len(ret.top_files) = Min(Cardinality(FileNodes(ret.node)), TopK)
    /\ \A n \in FileNodes(ret.node) : Cardinality(RowsOf(n)) <= 1
    /\ \A i \in DOMAIN ret.top_files :
          \E n \in FileNodes(ret.node) :
              n.path = ret.top_files[i].path /\ n.size = ret.top_files[i].size_bytes
    /\ \A n \in LeftOut : \A i \in DOMAIN ret.top_files :
          n.size <= ret.top_files[i].size_bytes

\* C11 as stated: after _compute_top_files on a tree with F file nodes the
\* list has min(F, 100) rows, strictly descending by size_bytes, and no file
\* left out is larger than a file of the list.
C11_TopStrictlyDescending ==
    TopComputed =>
        /\ TopIsLargest
        /\ \A i \in 1..(Len(ret.top_files) - 1) :
              ret.top_files[i].size_bytes > ret.top_files[i + 1].size_bytes

\* C11 amended: the list has min(F, 100) rows, descending by size_bytes with
\* files of equal size next to each other, and no file left out is larger
\* than a file of the list; with more than 100 files of distinct sizes the
\* 101st largest is left out.
C11_TopDescending ==
    TopComputed =>
        /\ TopIsLargest
        /\ \A i \in 1..(Len(ret.top_files) - 1) :
              ret.top_files[i].size_bytes >= ret.top_files[i + 1].size_bytes
        /\ Cardinality(FileNodes(ret.node)) > TopK
              => \A n \in LeftOut :
                    Cardinality({m \in FileNodes(ret.node) : m.size >= n.size}) > TopK

\* C11 witness: more than 100 files of distinct sizes, 100 of them listed
C11_Witness ==
    /\ TopComputed
    /\ Cardinality(FileNodes(ret.node)) > TopK
    /\ \A n, m \in FileNodes(ret.node) : n.size = m.size => n = m
    /\ Len(ret.top_files) = TopK

\* C12: two files of equal size stand in the list in the order in which the
\* depth-first traversal met them, and of the files of one size the list
\* keeps those met first.
C12_TiesInTraversalOrder ==
        \* the place of the file with this path in the depth-first traversal of the
        \* tree, children in stored order
    LET Encounter(path) ==
            LET rows == Visit(ret.node)
            IN  CHOOSE i \in DOMAIN rows : rows[i].path = path
    IN
    TopComputed =>
        /\ \A i, j \in DOMAIN ret.top_files :
              (i < j /\ ret.top_files[i].size_bytes = ret.top_files[j].size_bytes)
                  => Encounter(ret.top_files[i].path) < Encounter(ret.top_files[j].path)
        /\ \A n \in LeftOut : \A i \in DOMAIN ret.top_files :
              ret.top_files[i].size_bytes = n.size
                  => Encounter(ret.top_files[i].path) < Encounter(n.path)

\* C12 witness: files of one size on both sides of the cut
C12_Witness ==
    /\ TopComputed
    /\ Len(ret.top_files) = TopK
    /\ \E n \in LeftOut : n.size = ret.top_files[TopK].size_bytes

----------------------------------------------------------------------------
(* Properties of human_size *)

\* the unit written behind the space
UnitOf(text) ==
    LET sp == CHOOSE i \in DOMAIN text : text[i] = " "
    IN  SubSeq(text, sp + 1, Len(text))

\* n / 1024^i < 1024: no digit of n above the one of weight 1024^i
FitsUnit(n, i) == \A j \in DOMAIN n : j > i + 1 => n[j] = 0

\* C19: for every byte count n >= 0 human_size writes the unit of smallest
\* index i of the ladder o, Ko, Mo, Go, To with n / 1024^i < 1024, and To for
\* every n >= 1024^5; 0 is written in o, 1536 in Ko and 1073741824 in Go.
C19_UnitOfLadder ==
        \* the smallest i of the ladder with n / 1024^i < 1024, the top one if none
    LET LadderIndex(n) ==
            LET fit == {i \in 0..(Len(Units) - 1) : FitsUnit(n, i)}
            IN  IF fit = {} THEN Len(Units) - 1
                ELSE CHOOSE i \in fit : \A j \in fit : i <= j
    IN
    ret.kind = "human_size" =>
        /\ UnitOf(ret.text) = Units[LadderIndex(arg.n) + 1]
        /\ (~FitsUnit(arg.n, 4)) => UnitOf(ret.text) = <<"T", "o">>
        /\ arg.n = <<0>> => UnitOf(ret.text) = <<"o">>
        /\ arg.n = Bytes(1536) => UnitOf(ret.text) = <<"K", "o">>
        /\ arg.n = <<0, 0, 0, 1>> => UnitOf(ret.text) = <<"G", "o">>

\* C19 witness: a count of 1024^5 bytes or more, written in To
C19_Witness ==
    /\ ret.kind = "human_size"
    /\ ~FitsUnit(arg.n, 4)
    /\ UnitOf(ret.text) = <<"T", "o">>

----------------------------------------------------------------------------
(* Properties of the exports *)

\* the (path, size) pairs read back from the delimited text: the first and
\* the fifth field of every record behind the header
CsvPairs(file) ==
    LET records == CsvParse(file.text)
    IN  {<<records[k][1], StrToInt(records[k][5])>> : k \in 2..Len(records)}

\* C13: for one scan result, the (path, size_bytes) pairs read back from the
\* file of _export_tree_csv are those read back from the file of
\* _export_tree_json, and both are the (path, size) pairs of the nodes.
C13_CsvAndJsonAgree ==
        \* the (path, size) pairs of the nodes of a tree
    LET NodePairs(root) == {<<PathStr(n.path), n.size>> : n \in NodesOf(root)}
    IN
        \* the (path, size) pairs read back from the structured data
    LET JsonPairs(file) ==
                \* json.load on a string value
            LET JsonParseString(token) == JsonUnescape(SubSeq(token, 2, Len(token) - 1))
            IN
            {<<JsonParseString(file.array[k].path), StrToInt(file.array[k].size_bytes)>>
                : k \in DOMAIN file.array}
    IN
    /\ ret.kind = "_export_tree_csv"
           => /\ CsvPairs(ret.file) = NodePairs(arg.root_node)
              /\ CsvPairs(ret.file) = JsonPairs(_export_tree_json(arg.root_node))
    /\ ret.kind = "_export_tree_json"
           => /\ JsonPairs(ret.file) = NodePairs(arg.root_node)
              /\ JsonPairs(ret.file) = CsvPairs(_export_tree_csv(arg.root_node))

\* C13 witness: a name with the delimiter or a quote in it was written to the
\* delimited text, below a directory
C13_Witness ==
    /\ ret.kind = "_export_tree_csv"
    /\ \E n \in NodesOf(arg.root_node) :
          /\ n.level >= 1
          /\ \E i \in DOMAIN n.name : n.name[i] \in {Delimiter, Quote}
    /\ Cardinality(CsvPairs(ret.file)) >= 3

\* C20: when writing one of the files of a three-file batch fails, the
\* handler shows one error and no success message, opens nothing, writes no
\* later file of the batch and leaves the earlier ones, complete, on disk.
C20_OneErrorNoRollback ==
        \* the first exporter of the plan that fails (0: none does)
    LET FirstFailure(plan, outcomes) ==
            LET failing == {i \in DOMAIN plan : outcomes[i] # "ok"}
            IN  IF failing = {} THEN 0 ELSE CHOOSE i \in failing : \A j \in failing : i <= j
    IN
    ret.kind = "on_export_results" =>
        LET plan == ExportPlan(arg.base_path)
            k == FirstFailure(plan, arg.outcomes)
            names == {ret.run.disk[i].name : i \in DOMAIN ret.run.disk}
        IN  (Len(plan) = 3 /\ k > 0) =>
                /\ ret.run.shown = <<"error: erreur d'export">>
                /\ ret.run.opened = <<>>
                /\ \A i \in DOMAIN plan : i > k => plan[i].name \notin names
                /\ \A i \in DOMAIN plan :
                      i < k => \E j \in DOMAIN ret.run.disk :
                                  /\ ret.run.disk[j].name = plan[i].name
                                  /\ ret.run.disk[j].complete

\* C20 witness: the second file of a batch failed while it was written, the
\* first one is on disk and the third one is not
C20_Witness ==
    /\ ret.kind = "on_export_results"
    /\ Len(ExportPlan(arg.base_path)) = 3
    /\ arg.outcomes = <<"ok", "write fails", "ok">>
    /\ Len(ret.run.disk) = 2
    /\ ret.run.shown = <<"error: erreur d'export">>

----------------------------------------------------------------------------
(* Properties of the filter of the report *)

\* the element of the page written for a node of the tree
LocOf(page, n) ==
    CHOOSE l \in Locs(page.doc) :
        Decoded(ElementAt(page.doc, l).node.path) = PathStr(n.path)

\* the node passes both filters: its lower-cased name contains the substring
\* and its level is at most the depth, when one is given
Wanted(n, substring, depth) ==
    /\ Contains(Lower(n.name), substring)
    /\ depth # <<>> => n.level <= depth[1]

\* the displayed nodes are those to show for the substring and the depth
\* typed, and every node that passes the filters has all its ancestors displayed
ShownAsFiltered(page, root, substring) ==
        \* the nodes at and above the place loc
    LET Above(page0, loc) == {l \in Locs(page0.doc) : IsPrefix(l, loc)}
    IN
        \* the node passes both filters or is a directory above a node that does
    LET ToShow(n, substring0, depth) ==
            \/ Wanted(n, substring0, depth)
            \/ n.is_dir /\ \E m \in NodesOf(n) \ {n} : Wanted(m, substring0, depth)
    IN
    \A d \in DepthChoices :
        page.level_value = LevelText(d) =>
            \A n \in NodesOf(root) :
                /\ Displayed(page, LocOf(page, n)) <=> ToShow(n, substring, d)
                /\ Wanted(n, substring, d) =>
                       \A l \in Above(page, LocOf(page, n)) :
                           l \notin {h[2] : h \in page.hidden}

AfterApplyFilters ==
    /\ ret.kind = "page"
    /\ ret.version = 21
    /\ ret.last \in {"name input", "apply click"}

\* C14 as stated: after applyFilters a node is displayed iff it, or for a
\* directory one of its descendants, has a lower-cased name containing the
\* lower-cased text of the name input and a level within the maximum depth.
C14_ShownIffContainsTyped ==
    AfterApplyFilters => ShownAsFiltered(ret, arg.root_node, Lower(ret.name_value))

\* C14: after applyFilters a node is displayed iff it, or for a directory one
\* of its descendants, has a lower-cased name containing the lower-cased text
\* of the name input with its leading and trailing blanks removed, and a
\* level within the maximum depth when one is given; every node that passes
\* has all its ancestors displayed.
C14_ShownIffContainsTrimmed ==
    AfterApplyFilters => ShownAsFiltered(ret, arg.root_node, Trim(Lower(ret.name_value)))

\* C14 witness: with a capital typed as name and a depth of 1, a directory
\* that does not pass the filters is displayed for a file below it that
\* does, and another node is hidden
C14_Witness ==
    /\ AfterApplyFilters
    /\ ret.name_value = <<"T">>
    /\ ret.level_value = <<"1">>
    /\ \E n \in NodesOf(arg.root_node) :
          /\ n.is_dir
          /\ ~Wanted(n, <<"t">>, <<1>>)
          /\ Displayed(ret, LocOf(ret, n))
    /\ \E n \in NodesOf(arg.root_node) : ~Displayed(ret, LocOf(ret, n))

\* C15: after any change of the name input or of the level input, the
\* displayed nodes are those the filter gives for the current values of both.
C15_RecomputedOnEveryChange ==
    (ret.kind = "page" /\ ret.version = 21 /\ ret.last \in {"name input", "level input"})
        => ShownAsFiltered(ret, arg.root_node, Trim(Lower(ret.name_value)))

\* C16: after a reset, in both versions, no element is hidden and both
\* inputs are empty.
C16_ResetShowsEverything ==
    (ret.kind = "page" /\ ret.last = "reset click")
        => /\ ret.hidden = {}
           /\ ret.name_value = <<>>
           /\ ret.level_value = <<>>

----------------------------------------------------------------------------
(* Properties of the views after a scan *)

\* C17: once a scan has completed, no step of the rename and delete handlers
\* of the two context menus changes the node tree, the extension table or the
\* list of largest files.
C17_EditsLeaveResultUnchanged ==
    [][ContextMenus => /\ root_node' = root_node
                       /\ ext_stats' = ext_stats
                       /\ top_files' = top_files]_vars

\* C18: a step of on_change_max_level leaves root_node (so every node's size
\* and children), ext_stats, top_files and the progress counters unchanged;
\* with a result and no scan running the tree view then holds exactly the
\* nodes whose level is at most the new depth; while a scan runs or without
\* a result the step changes nothing but the depth of the spinbox itself.
C18_DepthOnlyChangesRendering ==
    [][(\E level \in SpinFrom..SpinTo : on_change_max_level(level)) =>
           LET RECURSIVE Places(_, _)
               Places(node, loc) ==
                   {loc} \cup UNION {Places(node.children[i], Append(loc, i)) :
                                         i \in DOMAIN node.children}
           IN  /\ root_node' = root_node
               /\ ext_stats' = ext_stats
               /\ top_files' = top_files
               /\ progress_total' = progress_total
               /\ progress_current' = progress_current
               /\ IF root_node = None \/ scan_running
                  THEN UNCHANGED <<fs, tree, views, scan_error, scan_thread, workers,
                                   scan_running, current_scan_path, progress_var,
                                   lbl_status, btn_export, pollPending, finalized>>
                  ELSE tree' = {loc \in Places(root_node, <<>>) :
                                    NodeAt(root_node, loc).level <= max_level_var'}]_vars

\* the spinbox was brought down to depth 1 after a scan whose tree goes
\* deeper: the nodes of level 2 are no longer in the tree view, the others are
C18_Witness ==
    /\ root_node # None
    /\ ~scan_running
    /\ lastRead.op = "on_change_max_level"
    /\ max_level_var = 1
    /\ <<>> \in tree
    /\ \E i \in DOMAIN root_node.children :
           /\ <<i>> \in tree
           /\ root_node.children[i].children # <<>>
           /\ <<i, 1>> \notin tree

----------------------------------------------------------------------------
(* Properties of the failures of single paths *)

\* C21: for a root that is a directory, whatever fails below it,
\* scan_directory returns a node and a table (nothing is raised), the worker
\* records _scan_error = None, and every started worker eventually ends.
C21_PathErrorsNeverEscape ==
    /\ [](\A w \in Threads :
              /\ (workers[w].pc \in {"scan", "store_ext", "store_err", "exit"}
                      /\ fs.kind = "dir")
                     => ~workers[w].res.raised /\ workers[w].res.node.is_dir
              /\ (workers[w].pc = "exit" /\ fs.kind = "dir")
                     => scan_error = "None" /\ root_node # None)
    /\ (Alive # {}) ~> (Alive = {})

\* C21 witness: the scan of a directory with failing paths below it has ended
\* without an error recorded
C21_Witness ==
    LET RECURSIVE HasFailure(_)
        \* e, or an entry below it, fails: a listing that breaks, an entry
        \* whose is_dir raises, a file whose stat fails
        HasFailure(e) ==
            \/ e.failAt # -1
            \/ e.kind = "denied"
            \/ e.kind = "file" /\ e.statFails
            \/ \E i \in DOMAIN e.entries : HasFailure(e.entries[i])
    IN
    /\ scan_thread # 0
    /\ workers[scan_thread].pc = "dead"
    /\ fs.kind = "dir"
    /\ HasFailure(fs)
    /\ scan_error = "None"
    /\ root_node # None

\* C22: in the tree scan_directory returns, an entry whose scan raised is
\* absent: the children of every directory node are, in order, the entries
\* listed before the listing broke whose scan did not raise, the size of the
\* node is the sum of theirs, every key of the extension table sums the file
\* nodes that bear it, and the node is marked access_denied only when its own
\* listing broke.
C22_RaisingEntryDropped ==
    (Returned /\ arg.kind = "fs") =>
        LET files == FileNodes(ret.res.node)
            stats == ret.res.ext
        IN  /\ \A n \in NodesOf(ret.res.node) :
                   n.is_dir =>
                       LET e == FsFind(arg.root, n.path)
                           listed == IF e.failAt = -1 THEN e.entries
                                     ELSE SubSeq(e.entries, 1, e.failAt)
                           Scanned(c) == c.kind # "denied"
                           kept == SelectSeq(listed, Scanned)
                       IN  /\ [i \in DOMAIN n.children |-> n.children[i].name]
                                  = [i \in DOMAIN kept |-> kept[i].name]
                           /\ n.size = SumSeq([i \in DOMAIN n.children |->
                                                  n.children[i].size])
                           /\ n.access_denied <=> e.failAt # -1
            /\ \A i \in DOMAIN stats :
                   stats[i].size = SumOver({f \in files : ExtKey(f.name) = stats[i].ext})
            /\ {stats[i].ext : i \in DOMAIN stats} = {ExtKey(f.name) : f \in files}

\* C22 witness: the first entry of the root raised, the second one is linked
\* and counted, and the root is not marked
C22_Witness ==
    /\ Returned
    /\ arg.kind = "fs"
    /\ arg.root.kind = "dir"
    /\ arg.root.failAt = -1
    /\ Len(arg.root.entries) = 2
    /\ arg.root.entries[1].kind = "denied"
    /\ Len(ret.res.node.children) = 1
    /\ ret.res.node.children[1].name = arg.root.entries[2].name
    /\ ret.res.node.size >= 1
    /\ ~ret.res.node.access_denied

\* C23: every listed file whose stat fails is linked under its directory with
\* size 0 and its extension key is in the table; the total of every key is
\* the sum of the sizes of the files bearing it whose stat succeeded; the keys
\* of the table are those of the file nodes of the tree.
C23_FailedStatRecordedAsZero ==
    (Returned /\ arg.kind = "fs") =>
        LET files == FileNodes(ret.res.node)
            stats == ret.res.ext
            keys == {stats[i].ext : i \in DOMAIN stats}
            StatOk(f) == ~FsFind(arg.root, f.path).statFails
        IN  /\ \A n \in NodesOf(ret.res.node) :
                   n.is_dir =>
                       LET e == FsFind(arg.root, n.path)
                           listed == IF e.failAt = -1 THEN DOMAIN e.entries
                                     ELSE 1..e.failAt
                       IN  \A i \in listed :
                               (e.entries[i].kind = "file" /\ e.entries[i].statFails)
                                   => /\ \E j \in DOMAIN n.children :
                                             /\ n.children[j].name = e.entries[i].name
                                             /\ ~n.children[j].is_dir
                                             /\ n.children[j].size = 0
                                      /\ ExtKey(e.entries[i].name) \in keys
            /\ \A f \in files : ~StatOk(f) => f.size = 0 /\ ExtKey(f.name) \in keys
            /\ \A i \in DOMAIN stats :
                   stats[i].size = SumOver({f \in files : /\ ExtKey(f.name) = stats[i].ext
                                                          /\ StatOk(f)})
            /\ keys = {ExtKey(f.name) : f \in files}

\* C23 witness: the only file with its extension could not be read: its key
\* is in the table with 0 beside the key of a file that could
C23_Witness ==
    /\ Returned
    /\ arg.kind = "fs"
    /\ arg.root.kind = "dir"
    /\ Len(ret.res.node.children) = 2
    /\ \E i \in DOMAIN ret.res.ext : ret.res.ext[i].size = 0
    /\ \E i \in DOMAIN ret.res.ext : ret.res.ext[i].size >= 1
    /\ \E i \in DOMAIN ret.res.node.children :
           /\ ~ret.res.node.children[i].is_dir
           /\ ret.res.node.children[i].size = 0
           /\ FsFind(arg.root, ret.res.node.children[i].path).statFails

----------------------------------------------------------------------------
(* Properties of the flattening *)

\* C24: _flatten_tree gives one row per node of the tree, the root first and
\* the first child of a directory right behind it, every other child right
\* behind the rows of the subtree of the child before it; the level of a row
\* is the depth of its node below the root, and the line of the indented text
\* for the row starts with two blanks per level.
C24_PreOrderWithDepth ==
    ret.kind = "_export_tree_txt" =>
        LET rows == ret.rows
            nodes == NodesOf(arg.root_node)
            RowOf(n) == CHOOSE i \in DOMAIN rows : rows[i].path = PathStr(n.path)
            Behind(n, k) ==
                IF k = 1 THEN RowOf(n) + 1
                ELSE RowOf(n.children[k - 1]) + Cardinality(NodesOf(n.children[k - 1]))
        IN  /\ Len(rows) = Cardinality(nodes)
            /\ \A n \in nodes : \E i \in DOMAIN rows : rows[i].path = PathStr(n.path)
            /\ RowOf(arg.root_node) = 1
            /\ \A n \in nodes :
                   /\ rows[RowOf(n)].name = n.name
                   /\ rows[RowOf(n)].level = Len(n.path) - 1
                   /\ \A k \in DOMAIN n.children :
                          /\ RowOf(n.children[k]) = Behind(n, k)
                          /\ rows[RowOf(n.children[k])].level = rows[RowOf(n)].level + 1
            /\ Len(ret.lines) = Len(rows)
            /\ \A i \in DOMAIN rows :
                   /\ Len(ret.lines[i].indent) = 2 * rows[i].level
                   /\ \A k \in DOMAIN ret.lines[i].indent : ret.lines[i].indent[k] = " "

\* C24 witness: a directory with a file in it, followed by a file beside it
C24_Witness ==
    /\ ret.kind = "_export_tree_txt"
    /\ Len(ret.rows) = 4
    /\ [i \in 1..4 |-> ret.rows[i].level] = <<0, 1, 2, 1>>
    /\ [i \in 1..4 |-> Len(ret.lines[i].indent)] = <<0, 2, 4, 2>>
    /\ ret.rows[2].type = <<"dossier">>
    /\ ret.rows[4].type = <<"fichier">>

----------------------------------------------------------------------------
(* Properties of the progress counters *)

\* C25: progress_total is at least 1 once a scan was started and changes only
\* when a scan is started; progress_current goes up one by one while a worker
\* is alive and goes down only to 0, when a scan is started, with no scan
\* running and no worker alive; the percent on display is within 0..100.
C25_CountersScopedToOneScan ==
    /\ [](/\ scan_thread # 0 => progress_total >= 1
          /\ progress_var \in 0..100)
    /\ [][/\ progress_total' # progress_total
              => /\ scan_thread' # scan_thread
                 /\ ~scan_running /\ scan_running'
          /\ progress_current' # progress_current
              => \/ /\ progress_current' = progress_current + 1
                    /\ Alive # {}
                 \/ /\ progress_current' = 0
                    /\ scan_thread' # scan_thread
                    /\ ~scan_running /\ scan_running'
                    /\ Alive = {}
          /\ (scan_running \/ Alive # {})
              => progress_current' >= progress_current]_vars

\* C25 witness: a second scan is in flight, its counter started again from 0
\* and has gone beyond the total, and the display stands at 100
C25_Witness ==
    /\ scan_thread = 2
    /\ IsAlive(2)
    /\ finalized[1] = 1
    /\ progress_current > progress_total
    /\ progress_var = 100

\* C26: in WinDirScope_08, WinDirScope_16 and WinDirScope_21 alike, a
\* complete scan of a directory calls progress_callback once for every entry
\* its listings give, a file or a directory.
C26_OneCallPerListedEntry ==
    LET RECURSIVE Listed(_)
        Listed(e) ==
            IF e.kind # "dir" THEN 0
            ELSE LET n == IF e.failAt = -1 THEN Len(e.entries) ELSE e.failAt
                 IN  n + SumSeq([i \in 1..n |-> Listed(e.entries[i])])
    IN  (ret.kind = "progress_callback" /\ arg.root.kind = "dir")
            => ret.calls = Listed(arg.root)

\* C27: once the poller has finalized a scan that recorded no error, on a
\* disk that did not change, the progress display stands at 100.
C27_SuccessfulScanEndsAt100 ==
    (/\ scan_thread # 0
     /\ finalized[scan_thread] >= 1
     /\ ~scan_running
     /\ ~fsChanged
     /\ scan_error = "None"
     /\ root_node # None)
        => progress_var = 100

----------------------------------------------------------------------------
(* Properties of the exports made from the menu *)

\* C28: whenever on_export_results or on_send_report goes past its test of
\* root_node, no scan is running, no worker is alive, and root_node, ext_stats
\* and the list of largest files it computes are those of one scan of one
\* folder.
C28_ExportOfOneCompletedScan ==
    [][((on_export_results \/ on_send_report) /\ root_node # None)
           => /\ ~scan_running
              /\ Alive = {}
              /\ \E folder \in AppFolders :
                     LET res == scan_directory(folder)
                     IN  /\ ~res.raised
                         /\ root_node = res.node
                         /\ ext_stats = res.ext
                         /\ top_files' = _compute_top_files(res.node)]_vars

\* C29: after the operations made on a scan result, every row of the list of
\* largest files bears the path and the name of a file node linked in the
\* tree, and an export or a report brings back into the list no path that is
\* gone from the disk (removed, or renamed to another path).
C29_TopFilesFollowTheTree ==
    /\ [](root_node # None
              => \A k \in DOMAIN top_files :
                     \E n \in FileNodes(root_node) :
                         n.path = top_files[k].path /\ n.name = top_files[k].name)
    /\ [][((on_export_results \/ on_send_report) /\ views = "populated")
              => \A k \in DOMAIN top_files' :
                     \/ \E i \in DOMAIN top_files : top_files[i].path = top_files'[k].path
                     \/ Exists(FsFind(fs, top_files'[k].path))]_vars

----------------------------------------------------------------------------
(* Properties of the export button *)

\* C30: the export button is enabled only while no scan is running, no
\* worker is alive and root_node holds the tree of a scan that recorded no
\* error; it is disabled when a scan starts, it is disabled after a scan that
\* ended with an error (root_node None, ext_stats empty), and only the
\* finalization of a scan without error enables it.
C30_ExportButtonOnlyAfterSuccess ==
    /\ [](/\ btn_export \in {"disabled", "normal"}
          /\ btn_export = "normal"
                 => /\ ~scan_running
                    /\ Alive = {}
                    /\ root_node # None
                    /\ scan_error = "None"
                    /\ finalized[scan_thread] = 1
          /\ (/\ scan_thread # 0
              /\ finalized[scan_thread] = 1
              /\ scan_error = "OSError")
                 => /\ btn_export = "disabled"
                    /\ root_node = None
                    /\ ext_stats = <<>>)
    /\ [][/\ scan_thread' # scan_thread => btn_export' = "disabled"
          /\ (btn_export # "normal" /\ btn_export' = "normal")
                 => /\ finalized' # finalized
                    /\ scan_error = "None"
                    /\ root_node # None
                    /\ ~scan_running']_vars

\* C30 witness: a first scan was finalized without error, a second one ended
\* with an error at the root and was finalized: the button is disabled
C30_Witness ==
    /\ scan_thread = 2
    /\ finalized = [w \in Threads |-> IF w <= 2 THEN 1 ELSE 0]
    /\ scan_error = "OSError"
    /\ lbl_status = "error"
    /\ root_node = None
    /\ btn_export = "disabled"
    /\ ~scan_running

====
